---------------------------- MODULE Spec2Model ----------------------------
(***************************************************************************)
(* Content-acquisition engine of civitas-cerebrum/emtp.                    *)
(*                                                                         *)
(* The subsystems are modelled one by one, each with its own               *)
(* specification:                                                          *)
(*                                                                         *)
(*   Spec, LiveSpec  the screenshot worker pool                            *)
(*                   (dataset/acquisition/save_screenshot/main.py):        *)
(*                   main() starts the worker threads, waits on q.join(),  *)
(*                   enqueues one None per worker and joins the threads;   *)
(*                   worker() drains the queue.  Spec also lets a          *)
(*                   KeyboardInterrupt reach the main thread.              *)
(*   ShippedSpec     Spec restricted to the items main() itself enqueues.  *)
(*   BatchSpec       the Firecrawl batch orchestrator scrape_urls_batch    *)
(*                   (dataset/acquisition/save_datasource/main.py) as      *)
(*                   main() calls it: one POST, then a poll loop.          *)
(*   BatchLiveSpec   BatchSpec with the progress of the calling thread.    *)
(*   DenySpec        is_denied_domain (retrieve_url/url_utils.py) applied  *)
(*                   to a URL and a denylist.                              *)
(*   CollectSpec     the loop over the input files of both capture mains   *)
(*                   and the deduplication that follows it.                *)
(*   SaveSpec        main() of save_datasource from the batch submission   *)
(*                   to the saved files, then aggregate_metadata_to_file   *)
(*                   (src/main.py).                                        *)
(*   AggregateSpec   aggregate_metadata_to_file on a list of entries.      *)
(*   PathSpec        create_output_path applied to two tasks.              *)
(*   GenSpec         generate_questions (dataset/questions/                *)
(*                   question_generation.py): the retry loop.              *)
(*   MapSpec         create_output_path of save_screenshot evaluated in    *)
(*                   several working directories.                          *)
(*   SessionSpec     the worker pool with the browser session that each    *)
(*                   worker's capturer holds (screenshot_capture.py).      *)
(*   OutcomeSpec     the outcome and the file of a task in both capture    *)
(*                   stages.                                               *)
(*   IntentSpec      the two extract_urls_from_json_file and the loops of  *)
(*                   the mains that read what they return.                 *)
(*   NameSpec        create_safe_filename of both capture mains.           *)
(*   SearchSpec      search_and_save_urls (retrieve_url/main.py) for one   *)
(*                   question.                                             *)
(*   CleanSpec       main() of screenshot_processing with the globals of   *)
(*                   its text_cleaner.                                     *)
(*                                                                         *)
(* A specification leaves the variables of the other subsystems at their   *)
(* idle values.                                                            *)
(***************************************************************************)
EXTENDS Naturals, Integers, Sequences, FiniteSets, TLC

VARIABLES
    \* ---- worker pool (save_screenshot/main.py) ----
    workers,            \* main(): the workers argument (W)
    ntasks,             \* main(): total_urls, the number of queue.put calls
    urlIsStr,           \* per task: whether the queued url value is a str
    queue,              \* queue.Queue: the items not yet dequeued (0 is None)
    unfinished,         \* queue.Queue.unfinished_tasks
    mainpc,             \* position of the main thread
    started,            \* threads started so far (loop of lines 188-195)
    sentinelsPut,       \* q.put(None) calls made so far (lines 201-202)
    joined,             \* threads joined so far (lines 203-204)
    wpc,                \* position of each worker thread
    item,               \* the item each worker holds (0: none / None)
    total_screenshots,  \* len(total_screenshots)
    failed,             \* logger.error calls of line 129
    interruptedAt,      \* where the main thread was when interrupted
    dequeues,           \* history: q.get() returns per task
    dequeuedBy,         \* history: the workers that dequeued each task
    attempts,           \* history: capture_full_page_screenshot calls per task
    acks,               \* history: q.task_done() calls per task
    outcomeOf,          \* history: how the try body of each task ended
    sentinelsGot,       \* history: None items each worker has dequeued
    \* ---- batch orchestrator (save_datasource/main.py) ----
    bpc,                \* position inside main()/scrape_urls_batch
    all_urls,           \* main(): all_urls at line 250
    unique_urls,        \* main(): unique_urls (line 251), the urls argument
    status,             \* state of the batch job
    posts,              \* requests.post calls made
    polls,              \* requests.get calls made
    submitOutcome,      \* history: how the POST ended
    lastPoll,           \* history: the last poll response
    successful_results, \* scrape_urls_batch: successful_results
    failed_count,       \* scrape_urls_batch: failed_count
    batch_result,       \* the dict scrape_urls_batch returned
    \* ---- collection of the tasks (both main() functions) ----
    stage,              \* which main() runs: "datasource" or "screenshot"
    itemIsDict,         \* whether the extractor's list holds dicts
    json_files,         \* find_json_files(input_dir): the sorted input files
    fileIdx,            \* files the loop over json_files has handled
    enqueued,           \* save_screenshot main(): the items put on q
    url_metadata_mapping, \* save_datasource main(): url_metadata_mapping
    file_errors,        \* history: files whose error was logged
    pdf_skipped,        \* history: URLs logged as skipped PDF (line 241)
    downloads,          \* history: URLs passed to download_pdf
    \* ---- saving of the results and aggregation ----
    saveIdx,            \* results the loop of lines 259-291 has handled
    written,            \* history: the files opened for writing (line 274)
    collected_metadata, \* main(): collected_metadata
    final_output,       \* aggregate_metadata_to_file: what json.dump wrote
    \* ---- functions checked on their own ----
    deny_url,           \* is_denied_domain: url
    denied_domains,     \* is_denied_domain: denied_domains
    deny_result,        \* is_denied_domain: the value returned
    task_a,             \* create_output_path: a task (json file, url)
    task_b,             \* create_output_path: another task
    path_a,             \* create_output_path: the path of task_a
    path_b,             \* create_output_path: the path of task_b
    \* ---- question generation (dataset/questions) ----
    gpc,                \* position inside generate_questions
    retries,            \* generate_questions: retries
    attempt,            \* generate_questions: attempt
    gen_outcomes,       \* history: how each requests.post call ended
    gen_sleeps,         \* history: the time.sleep calls
    \* ---- create_output_path with its directories ----
    map_args,           \* create_output_path: the four arguments
    map_cwd,            \* os.getcwd() at each evaluation
    map_paths,          \* history: the path each evaluation returned
    \* ---- browser sessions of the workers (screenshot_capture.py) ----
    driver,             \* per worker: capturer.driver (0 is None)
    sessions,           \* history: the sessions webdriver.Chrome created
    png_files,          \* history: per task, the file image.save left
    \* ---- document intent (both json_parser.py) ----
    ipc,                \* position: "extract", "consume", "done" ("off")
    intent_input,       \* the stage that runs and the entry of its input file
    extracted,          \* what extract_urls_from_json_file returned
    received,           \* the tasks main() obtained from that list
    \* ---- file names (create_safe_filename of both mains) ----
    npc,                \* position: "call", "done" ("off")
    name_url,           \* the URL and the stage whose function is called
    name_result,        \* the filename create_safe_filename returned
    \* ---- URL retrieval of one question (retrieve_url/main.py) ----
    spc,                \* position: "while", "done" ("off")
    search_input,       \* the question's provided urls and the denylist
    search_results,     \* history: per attempt, what search_question gave
    retrieved_urls,     \* the URLs collected for the question
    search_attempts,    \* attempts of the question
    category_results,   \* the urls lists written for the category
    total_urls_found,   \* the URLs counted as found
    total_questions_failed, \* the questions counted as failed
    \* ---- processing mode (screenshot_processing) ----
    cpc,                \* position: "main", "list", "pool", "returned" ("off")
    clean_call,         \* accurate, the files found, the pool's start method
    main_FAST_MODE,     \* FAST_MODE of the module main
    cleaner_FAST_MODE,  \* FAST_MODE of the module text_cleaner
    tool,               \* tool of text_cleaner: "None" or "LanguageTool"
    tool_inits,         \* history: files processed at each LanguageTool(...)
    cleaned             \* history: per file, the lines the tool checked

poolVars == <<workers, ntasks, urlIsStr, queue, unfinished, mainpc, started,
              sentinelsPut, joined, wpc, item, total_screenshots, failed,
              interruptedAt, dequeues, dequeuedBy, attempts, acks, outcomeOf,
              sentinelsGot>>

batchVars == <<bpc, all_urls, unique_urls, status, posts, polls, submitOutcome,
               lastPoll, successful_results, failed_count, batch_result>>

collectVars == <<stage, itemIsDict, json_files, fileIdx, enqueued,
                 url_metadata_mapping, file_errors, pdf_skipped, downloads>>

saveVars == <<saveIdx, written, collected_metadata, final_output>>

fnVars == <<deny_url, denied_domains, deny_result, task_a, task_b, path_a,
            path_b>>

genVars == <<gpc, retries, attempt, gen_outcomes, gen_sleeps>>

\* The stages around the two capture stages.
mapVars == <<map_args, map_cwd, map_paths>>

sessionVars == <<driver, sessions>>

fileVars == <<png_files>>

intentVars == <<ipc, intent_input, extracted, received>>

nameVars == <<npc, name_url, name_result>>

searchVars == <<spc, search_input, search_results, retrieved_urls,
               search_attempts, category_results, total_urls_found,
               total_questions_failed>>

cleanVars == <<cpc, clean_call, main_FAST_MODE, cleaner_FAST_MODE, tool,
              tool_inits, cleaned>>

stageVars == <<genVars, mapVars, sessionVars, fileVars, intentVars,
              nameVars, searchVars, cleanVars>>

\* What an action of stage g leaves alone among the stages.
OtherStagesUnchanged(g) ==
    /\ IF g # "gen" THEN UNCHANGED genVars ELSE TRUE
    /\ IF g # "map" THEN UNCHANGED mapVars ELSE TRUE
    /\ IF g # "session" THEN UNCHANGED sessionVars ELSE TRUE
    /\ IF g # "files" THEN UNCHANGED fileVars ELSE TRUE
    /\ IF g # "intent" THEN UNCHANGED intentVars ELSE TRUE
    /\ IF g # "name" THEN UNCHANGED nameVars ELSE TRUE
    /\ IF g # "search" THEN UNCHANGED searchVars ELSE TRUE
    /\ IF g # "clean" THEN UNCHANGED cleanVars ELSE TRUE

vars == <<poolVars, batchVars, collectVars, saveVars, fnVars, stageVars>>

\* What an action of one subsystem leaves alone.
otherThanPool == <<batchVars, collectVars, saveVars, fnVars, stageVars>>

otherThanBatch == <<poolVars, collectVars, saveVars, fnVars, stageVars>>

(***************************************************************************)
(* Bounds of the model.                                                    *)
(***************************************************************************)
MaxTasks == 3

MaxWorkers == 2

MaxUrls == 2

MaxFiles == 2

MaxEntries == 3

MaxHostLen == 3

MaxEntryLen == 2

MaxDenied == 2

MaxBodyLen == 2

MaxRetries == 5

MaxDorkWords == 2

PoolSize == 6

MaxLines == 2

MaxItems == 2

MaxPolls == 2

(***************************************************************************)
(* Worker pool                                                             *)
(***************************************************************************)

\* The shutdown sentinel: q.put(None).
None == 0

Tasks == 1 .. ntasks

Workers == 1 .. workers

NoResult == [returned |-> FALSE, success |-> 0, failed |-> 0, data |-> << >>]

NoPoll == [kind |-> "none", hasData |-> FALSE, data |-> << >>]

BatchIdle ==
    /\ bpc = "off"
    /\ all_urls = << >>
    /\ unique_urls = << >>
    /\ status = "Idle"
    /\ posts = 0
    /\ polls = 0
    /\ submitOutcome = "none"
    /\ lastPoll = NoPoll
    /\ successful_results = << >>
    /\ failed_count = 0
    /\ batch_result = NoResult

NoTask == [json_file |-> 0, url |-> << >>]

\* No datasource_metadata.json has been written.
NotWritten == [written |-> FALSE, groups |-> << >>]

CollectIdle ==
    /\ stage = "none"
    /\ itemIsDict = FALSE
    /\ json_files = << >>
    /\ fileIdx = 0
    /\ enqueued = << >>
    /\ url_metadata_mapping = << >>
    /\ file_errors = {}
    /\ pdf_skipped = << >>
    /\ downloads = << >>

SaveIdle ==
    /\ saveIdx = 0
    /\ written = << >>
    /\ collected_metadata = << >>
    /\ final_output = NotWritten

\* is_denied_domain has not been called.
NotCalled == [returned |-> FALSE, value |-> FALSE]

DenyIdle ==
    /\ deny_url = << >>
    /\ denied_domains = << >>
    /\ deny_result = NotCalled

\* create_output_path has not been called.
NoPath == [dir |-> 0, name |-> << >>]

PathIdle ==
    /\ task_a = NoTask
    /\ task_b = NoTask
    /\ path_a = NoPath
    /\ path_b = NoPath

FnIdle == DenyIdle /\ PathIdle

GenIdle ==
    /\ gpc = "off"
    /\ retries = 0
    /\ attempt = 0
    /\ gen_outcomes = << >>
    /\ gen_sleeps = << >>

MapIdle ==
    /\ map_args = << >>
    /\ map_cwd = << >>
    /\ map_paths = << >>

SessionIdle ==
    /\ driver = << >>
    /\ sessions = << >>

FilesIdle == png_files = << >>

IntentIdle ==
    /\ ipc = "off"
    /\ intent_input = << >>
    /\ extracted = << >>
    /\ received = << >>

NameIdle ==
    /\ npc = "off"
    /\ name_url = << >>
    /\ name_result = << >>

SearchIdle ==
    /\ spc = "off"
    /\ search_input = << >>
    /\ search_results = << >>
    /\ retrieved_urls = << >>
    /\ search_attempts = 0
    /\ category_results = << >>
    /\ total_urls_found = 0
    /\ total_questions_failed = 0

CleanIdle ==
    /\ cpc = "off"
    /\ clean_call = << >>
    /\ main_FAST_MODE = TRUE
    /\ cleaner_FAST_MODE = TRUE
    /\ tool = "None"
    /\ tool_inits = << >>
    /\ cleaned = << >>

\* Every stage but g is idle.
StagesIdleExcept(g) ==
    /\ IF g # "gen" THEN GenIdle ELSE TRUE
    /\ IF g # "map" THEN MapIdle ELSE TRUE
    /\ IF g # "session" THEN SessionIdle ELSE TRUE
    /\ IF g # "files" THEN FilesIdle ELSE TRUE
    /\ IF g # "intent" THEN IntentIdle ELSE TRUE
    /\ IF g # "name" THEN NameIdle ELSE TRUE
    /\ IF g # "search" THEN SearchIdle ELSE TRUE
    /\ IF g # "clean" THEN CleanIdle ELSE TRUE

StagesIdle == StagesIdleExcept("none")

PoolIdle ==
    /\ workers = 1
    /\ ntasks = 0
    /\ urlIsStr = << >>
    /\ queue = << >>
    /\ unfinished = 0
    /\ mainpc = "off"
    /\ started = 0
    /\ sentinelsPut = 0
    /\ joined = 0
    /\ wpc = << >>
    /\ item = << >>
    /\ total_screenshots = 0
    /\ failed = 0
    /\ interruptedAt = "none"
    /\ dequeues = << >>
    /\ dequeuedBy = << >>
    /\ attempts = << >>
    /\ acks = << >>
    /\ outcomeOf = << >>
    /\ sentinelsGot = << >>

\* create_safe_filename calls url.replace(...): a str is sanitised, any other
\* value (the extractor's dict) raises AttributeError.
create_safe_filename(isStr) == IF isStr THEN "ok" ELSE "raises"

\* Faulty variant of TryBody: a failed file write is not noticed.
TryBodyIgnoresWrite(t, cap, wr) ==
    IF cap = "raises" THEN "raised"
    ELSE IF create_safe_filename(urlIsStr[t]) = "raises" THEN "raised"
    ELSE "ok"

\* The try body of worker(): capture, output-path mapping, file write, append.
\* cap and wr are what the browser and the file system do.
TryBody(t, cap, wr) ==
    IF cap = "raises" THEN "raised"
    ELSE IF create_safe_filename(urlIsStr[t]) = "raises" THEN "raised"
    ELSE IF wr = "raises" THEN "raised"
    ELSE "ok"

\* Faulty variant of ListAppend: an append that overwrites a concurrent one.
ListAppendLost(n) == IF n >= 1 THEN n ELSE n + 1

\* total_screenshots.append(1) (line 127): one more element, whatever the
\* other threads do (list.append is atomic).
ListAppend(n) == n + 1

\* Faulty variant of AfterTry: the exception leaves the worker function.
AfterTryUncaught(res) == IF res = "raised" THEN "done" ELSE "ack"

\* Where a worker goes after the try body: the except clause (line 128)
\* catches every Exception, so control always reaches the finally clause.
AfterTry(res) == "ack"

\* Faulty variant of QueuePop: the item stays on the queue.
QueuePeek(q) == q

\* Queue.get removes the item it returns.
QueuePop(q) == Tail(q)

\* Faulty variant of task_done: the acknowledgement is not counted.
task_done_forgotten(n) == n

\* Queue.task_done: one unfinished task fewer.
task_done(n) == n - 1

\* State at line 184 of main(): the queue holds one (url, json_file) item
\* per extracted URL, no thread runs yet.  main() returns before this point
\* when total_urls == 0.  The url that main() enqueues is the dict that
\* json_parser.extract_urls_from_json_file returns for it (lines 171-173),
\* urlIsStr = FALSE; TRUE is an item whose url is the string worker() and
\* create_output_path expect.
PoolStart ==
    /\ workers \in 1 .. MaxWorkers
    /\ ntasks \in 1 .. MaxTasks
    /\ urlIsStr \in [1 .. ntasks -> BOOLEAN]
    /\ queue = [i \in 1 .. ntasks |-> i]
    /\ unfinished = ntasks
    /\ mainpc = "spawn"
    /\ started = 0
    /\ sentinelsPut = 0
    /\ joined = 0
    /\ wpc = [w \in 1 .. workers |-> "idle"]
    /\ item = [w \in 1 .. workers |-> None]
    /\ total_screenshots = 0
    /\ failed = 0
    /\ interruptedAt = "none"
    /\ dequeues = [t \in 1 .. ntasks |-> 0]
    /\ dequeuedBy = [t \in 1 .. ntasks |-> {}]
    /\ attempts = [t \in 1 .. ntasks |-> 0]
    /\ acks = [t \in 1 .. ntasks |-> 0]
    /\ outcomeOf = [t \in 1 .. ntasks |-> "none"]
    /\ sentinelsGot = [w \in 1 .. workers |-> 0]

PoolInit ==
    /\ PoolStart
    /\ BatchIdle
    /\ CollectIdle
    /\ SaveIdle
    /\ FnIdle
    /\ StagesIdle

\* thread.start() for the next worker (lines 188-195).
MainSpawn ==
    /\ mainpc = "spawn"
    /\ started' = started + 1
    /\ wpc' = [wpc EXCEPT ![started + 1] = "get"]
    /\ mainpc' = IF started + 1 = workers THEN "qjoin" ELSE "spawn"
    /\ UNCHANGED <<workers, ntasks, urlIsStr, interruptedAt, queue, unfinished,
                   sentinelsPut, joined, item, total_screenshots, failed,
                   dequeues, dequeuedBy, attempts, acks, outcomeOf,
                   sentinelsGot>>
    /\ UNCHANGED otherThanPool

\* Faulty variant of MainQueueJoin: main does not wait for the
\* acknowledgements.
MainQueueJoinNoBarrier ==
    /\ mainpc = "qjoin"
    /\ mainpc' = "stop"
    /\ UNCHANGED <<workers, ntasks, urlIsStr, interruptedAt, queue, unfinished,
                   started, sentinelsPut, joined, wpc, item, total_screenshots,
                   failed, dequeues, dequeuedBy, attempts, acks, outcomeOf,
                   sentinelsGot>>
    /\ UNCHANGED otherThanPool

\* q.join() (line 198) returns once unfinished_tasks is zero: every item put
\* so far has been acknowledged with task_done.
MainQueueJoin ==
    /\ mainpc = "qjoin"
    /\ unfinished = 0
    /\ mainpc' = "stop"
    /\ UNCHANGED <<workers, ntasks, urlIsStr, interruptedAt, queue, unfinished,
                   started, sentinelsPut, joined, wpc, item, total_screenshots,
                   failed, dequeues, dequeuedBy, attempts, acks, outcomeOf,
                   sentinelsGot>>
    /\ UNCHANGED otherThanPool

\* q.put(None), once per worker (lines 201-202).
MainPutSentinel ==
    /\ mainpc = "stop"
    /\ queue' = Append(queue, None)
    /\ unfinished' = unfinished + 1
    /\ sentinelsPut' = sentinelsPut + 1
    /\ mainpc' = IF sentinelsPut + 1 = workers THEN "tjoin" ELSE "stop"
    /\ UNCHANGED <<workers, ntasks, urlIsStr, interruptedAt, started, joined,
                   wpc, item, total_screenshots, failed, dequeues, dequeuedBy,
                   attempts, acks, outcomeOf, sentinelsGot>>
    /\ UNCHANGED otherThanPool

\* thread.join() for the next thread, in start order (lines 203-204); after
\* the last one main() logs the total and returns (line 206).
MainThreadJoin ==
    /\ mainpc = "tjoin"
    /\ wpc[joined + 1] = "done"
    /\ joined' = joined + 1
    /\ mainpc' = IF joined + 1 = workers THEN "done" ELSE "tjoin"
    /\ UNCHANGED <<workers, ntasks, urlIsStr, interruptedAt, queue, unfinished,
                   started, sentinelsPut, wpc, item, total_screenshots, failed,
                   dequeues, dequeuedBy, attempts, acks, outcomeOf,
                   sentinelsGot>>
    /\ UNCHANGED otherThanPool

\* KeyboardInterrupt in the main thread inside the try block: main() logs
\* and returns (lines 208-209).  Nothing is said to the worker threads.
MainInterrupt ==
    /\ mainpc \in {"spawn", "qjoin", "stop", "tjoin"}
    /\ mainpc' = "interrupted"
    /\ interruptedAt' = mainpc
    /\ UNCHANGED <<workers, ntasks, urlIsStr, queue, unfinished, started,
                   sentinelsPut, joined, wpc, item, total_screenshots, failed,
                   dequeues, dequeuedBy, attempts, acks, outcomeOf,
                   sentinelsGot>>
    /\ UNCHANGED otherThanPool

\* item = q.get() (line 113): blocks while the queue is empty; None ends the
\* loop and the with block closes the capturer (lines 114-115, 110).
WorkerGetPool(w) ==
    /\ wpc[w] = "get"
    /\ queue # << >>
    /\ queue' = QueuePop(queue)
    /\ item' = [item EXCEPT ![w] = Head(queue)]
    /\ IF Head(queue) = None
          THEN /\ wpc' = [wpc EXCEPT ![w] = "done"]
               /\ sentinelsGot' = [sentinelsGot EXCEPT ![w] = @ + 1]
               /\ UNCHANGED <<dequeues, dequeuedBy>>
          ELSE /\ wpc' = [wpc EXCEPT ![w] = "capture"]
               /\ dequeues' = [dequeues EXCEPT ![Head(queue)] = @ + 1]
               /\ dequeuedBy' = [dequeuedBy EXCEPT ![Head(queue)] = @ \cup {w}]
               /\ UNCHANGED sentinelsGot
    /\ UNCHANGED <<workers, ntasks, urlIsStr, interruptedAt, unfinished,
                   mainpc, started, sentinelsPut, joined, total_screenshots,
                   failed, attempts, acks, outcomeOf>>

WorkerGet(w) == WorkerGetPool(w) /\ UNCHANGED otherThanPool

\* Lines 120-129: the try body and its except clause.  On success the list
\* total_screenshots grows by one (list.append, atomic); on any Exception
\* the failure is logged.
WorkerTryPool(w, cap, wr) ==
    /\ wpc[w] = "capture"
    /\ LET res == TryBody(item[w], cap, wr) IN
          /\ outcomeOf' = [outcomeOf EXCEPT ![item[w]] = res]
          /\ total_screenshots' =
                IF res = "ok" THEN ListAppend(total_screenshots)
                ELSE total_screenshots
          /\ failed' = IF res = "raised" THEN failed + 1 ELSE failed
          /\ wpc' = [wpc EXCEPT ![w] = AfterTry(res)]
    /\ attempts' = [attempts EXCEPT ![item[w]] = @ + 1]
    /\ UNCHANGED <<workers, ntasks, urlIsStr, interruptedAt, queue, unfinished,
                   mainpc, started, sentinelsPut, joined, item, dequeues,
                   dequeuedBy, acks, sentinelsGot>>

WorkerTry(w) ==
    /\ \E cap \in {"returns", "raises"}, wr \in {"ok", "raises"} :
          WorkerTryPool(w, cap, wr)
    /\ UNCHANGED otherThanPool

\* Lines 130-131: finally: q.task_done(); then the loop goes back to q.get().
WorkerTaskDone(w) ==
    /\ wpc[w] = "ack"
    /\ unfinished' = task_done(unfinished)
    /\ acks' = [acks EXCEPT ![item[w]] = @ + 1]
    /\ wpc' = [wpc EXCEPT ![w] = "get"]
    /\ UNCHANGED <<workers, ntasks, urlIsStr, interruptedAt, queue, mainpc,
                   started, sentinelsPut, joined, item, total_screenshots,
                   failed, dequeues, dequeuedBy, attempts, outcomeOf,
                   sentinelsGot>>
    /\ UNCHANGED otherThanPool

RunNext ==
    \/ MainSpawn
    \/ MainQueueJoin
    \/ MainPutSentinel
    \/ MainThreadJoin
    \/ \E w \in Workers : WorkerGet(w)
    \/ \E w \in Workers : WorkerTry(w)
    \/ \E w \in Workers : WorkerTaskDone(w)

PoolNext ==
    \/ MainSpawn
    \/ MainQueueJoin
    \/ MainPutSentinel
    \/ MainThreadJoin
    \/ MainInterrupt
    \/ \E w \in Workers : WorkerGet(w)
    \/ \E w \in Workers : WorkerTry(w)
    \/ \E w \in Workers : WorkerTaskDone(w)

\* The worker pool, with a possible interrupt of the main thread.
Spec == PoolInit /\ [][PoolNext]_vars

\* The worker pool exactly as main() populates it: every queued url is the
\* extractor's dict (lines 171-173).
ShippedInit == PoolInit /\ \A t \in 1 .. ntasks : ~urlIsStr[t]

ShippedSpec == ShippedInit /\ [][PoolNext]_vars

\* The worker pool without interrupt, under fair scheduling of the threads:
\* a thread that can take a step eventually takes one (a capture attempt
\* eventually returns or raises).
LiveSpec == PoolInit /\ [][RunNext]_vars /\ WF_vars(RunNext)

(***************************************************************************)
(* Batch orchestrator (save_datasource/main.py)                            *)
(***************************************************************************)

Urls == 1 .. MaxUrls

\* The sequences over S of length 0 .. n.
SeqsUpTo(S, n) == UNION {[1 .. k -> S] : k \in 0 .. n}

Range(f) == {f[i] : i \in DOMAIN f}

\* list(dict.fromkeys(all_urls)) (line 251): the first occurrence of each
\* URL, in order.
RECURSIVE DictFromKeys(_, _, _)
DictFromKeys(l, i, acc) ==
    IF i > Len(l) THEN acc
    ELSE IF l[i] \in Range(acc) THEN DictFromKeys(l, i + 1, acc)
    ELSE DictFromKeys(l, i + 1, Append(acc, l[i]))

\* total_urls = len(urls) (line 69).
IsDeduplicated(l) == \A i, j \in DOMAIN l : l[i] = l[j] => i = j

total_urls == Len(unique_urls)

\* What the POST of lines 87-96 can produce: a RequestException (line 103),
\* a non-2xx status (raise_for_status, line 93), a body that is not a JSON
\* object (line 106), a body without a truthy 'success' or without 'id'
\* (line 96), or a job id.
SubmitOutcomes ==
    {"request_exception", "http_error", "not_an_object", "no_success_flag",
     "no_id", "ok"}

\* Faulty variant of SubmitFailed: the URLs are not counted as failed.
SubmitFailedNoneCounted(total) ==
    [returned |-> TRUE, success |-> 0, failed |-> 0, data |-> << >>]

\* The dict returned on a failed submission (lines 98, 105, 108).
SubmitFailed(total) ==
    [returned |-> TRUE, success |-> 0, failed |-> total, data |-> << >>]

\* The statuses for which the loop sleeps and polls again (line 145).
PendingLike == {"active", "pending", "scraping"}

\* Statuses of the else branch (line 147): anything else, None included.
OtherStatuses == {"failed", "cancelled", "missing"}

\* An item of status_data['data']: its markdown is a non-empty text, the
\* empty string or absent; its metadata is an object or null (on which
\* item.get('metadata', {}).get raises, line 126).
Items == [markdown : {"text", "", "absent"}, metadata : {"dict", "null"}]

\* Faulty variant of ProcessData: if 'markdown' in item, without the test
\* for empty content.
RECURSIVE ProcessDataKeepsEmpty(_, _, _, _)
ProcessDataKeepsEmpty(data, i, succ, nfailed) ==
    IF i > Len(data)
    THEN [succ |-> succ, failed |-> nfailed, raised |-> FALSE]
    ELSE IF data[i].metadata = "null"
    THEN [succ |-> succ, failed |-> nfailed, raised |-> TRUE]
    ELSE IF data[i].markdown # "absent"
    THEN ProcessDataKeepsEmpty(data, i + 1, Append(succ, data[i]), nfailed)
    ELSE ProcessDataKeepsEmpty(data, i + 1, succ, nfailed + 1)

\* The loop of lines 125-141 from item i on; raised when an item raises.
RECURSIVE ProcessData(_, _, _, _)
ProcessData(data, i, succ, nfailed) ==
    IF i > Len(data)
    THEN [succ |-> succ, failed |-> nfailed, raised |-> FALSE]
    ELSE IF data[i].metadata = "null"
    THEN [succ |-> succ, failed |-> nfailed, raised |-> TRUE]
    ELSE IF data[i].markdown = "text"
    THEN ProcessData(data, i + 1, Append(succ, data[i]), nfailed)
    ELSE ProcessData(data, i + 1, succ, nfailed + 1)

\* Faulty variant of Remaining: the unresolved URLs are not counted.
RemainingForgotten(succ) == 0

\* failed_count = total_urls - len(successful_results) (lines 149, 154, 158).
Remaining(succ) == total_urls - Len(succ)

\* The dict returned after the loop (lines 163-167).
Result(succ, nfailed) ==
    [returned |-> TRUE, success |-> Len(succ), failed |-> nfailed,
     data |-> succ]

\* Faulty variant of AfterPoll: only "completed" ends the loop.
AfterPollKeepsPolling(kind) ==
    IF kind = "completed" THEN "returned" ELSE "sleep"

\* Faulty variant of AfterPoll: the loop is left after the first response,
\* whatever its status.
AfterPollStopsAtFirst(kind) == "returned"

\* Where control goes after a poll response has been handled: the loop
\* sleeps and polls again on a pending-like status and is left (break) on
\* every other status and on every exception.
AfterPoll(kind) == IF kind \in PendingLike THEN "sleep" ELSE "returned"

\* State at line 250 of main(): all_urls is not empty (line 246).  The list
\* is an input here: any non-empty list of URLs, duplicates included.  (With
\* the extractor that main() imports, which returns tuples, item["url"] at
\* line 231 raises for every file that holds a URL, so only another
\* extractor or a direct caller of scrape_urls_batch supplies such a list.)
BatchInit ==
    /\ all_urls \in SeqsUpTo(Urls, MaxUrls + 1) \ {<< >>}
    /\ bpc = "dedup"
    /\ unique_urls = << >>
    /\ status = "Idle"
    /\ posts = 0
    /\ polls = 0
    /\ submitOutcome = "none"
    /\ lastPoll = NoPoll
    /\ successful_results = << >>
    /\ failed_count = 0
    /\ batch_result = NoResult
    /\ workers = 1
    /\ ntasks = 0
    /\ urlIsStr = << >>
    /\ queue = << >>
    /\ unfinished = 0
    /\ mainpc = "off"
    /\ started = 0
    /\ sentinelsPut = 0
    /\ joined = 0
    /\ wpc = << >>
    /\ item = << >>
    /\ total_screenshots = 0
    /\ failed = 0
    /\ interruptedAt = "none"
    /\ dequeues = << >>
    /\ dequeuedBy = << >>
    /\ attempts = << >>
    /\ acks = << >>
    /\ outcomeOf = << >>
    /\ sentinelsGot = << >>
    /\ CollectIdle
    /\ SaveIdle
    /\ FnIdle
    /\ StagesIdle

\* Lines 250-256: remove duplicates, then call scrape_urls_batch.
MainDedup ==
    /\ bpc = "dedup"
    /\ unique_urls' = DictFromKeys(all_urls, 1, << >>)
    /\ bpc' = "submit"
    /\ UNCHANGED <<all_urls, status, posts, polls, submitOutcome, lastPoll,
                   successful_results, failed_count, batch_result>>
    /\ UNCHANGED otherThanBatch

\* Lines 81-108: the one POST and what the function does with its answer.
Submit ==
    /\ bpc = "submit"
    /\ posts' = posts + 1
    /\ \E o \in SubmitOutcomes :
          /\ submitOutcome' = o
          /\ IF o = "ok"
                THEN /\ status' = "Submitted"
                     /\ bpc' = "poll"
                     /\ UNCHANGED batch_result
                ELSE /\ batch_result' = SubmitFailed(total_urls)
                     /\ bpc' = "returned"
                     /\ UNCHANGED status
    /\ UNCHANGED <<all_urls, unique_urls, polls, lastPoll, successful_results,
                   failed_count>>
    /\ UNCHANGED otherThanBatch

\* Lines 115-120, 145-146: a poll answered with a pending-like status.
PollPending ==
    /\ bpc = "poll"
    /\ polls < MaxPolls
    /\ polls' = polls + 1
    /\ \E k \in PendingLike :
          /\ lastPoll' = [kind |-> k, hasData |-> FALSE, data |-> << >>]
          /\ bpc' = AfterPoll(k)
    /\ status' = "Active"
    /\ UNCHANGED <<all_urls, unique_urls, posts, submitOutcome,
                   successful_results, failed_count, batch_result>>
    /\ UNCHANGED otherThanBatch

\* Line 146: time.sleep(5), then the next iteration of the loop.
Sleep ==
    /\ bpc = "sleep"
    /\ bpc' = "poll"
    /\ UNCHANGED <<all_urls, unique_urls, status, posts, polls, submitOutcome,
                   lastPoll, successful_results, failed_count, batch_result>>
    /\ UNCHANGED otherThanBatch

\* Lines 122-144 and 161-167: a poll answered "completed".  The items are
\* processed, the loop is left and the result returned; an item that
\* raises is handled by the except clause of lines 156-159.
PollCompleted ==
    /\ bpc = "poll"
    /\ polls' = polls + 1
    /\ \E hd \in BOOLEAN, d \in SeqsUpTo(Items, MaxItems) :
          /\ ~hd => d = << >>
          /\ lastPoll' = [kind |-> "completed", hasData |-> hd, data |-> d]
          /\ LET r == ProcessData(d, 1, successful_results, failed_count)
                 nfailed == IF r.raised THEN Remaining(r.succ) ELSE r.failed
             IN /\ successful_results' = r.succ
                /\ failed_count' = nfailed
                /\ batch_result' = Result(r.succ, nfailed)
                /\ status' = IF r.raised THEN "Failed" ELSE "Completed"
    /\ bpc' = AfterPoll("completed")
    /\ UNCHANGED <<all_urls, unique_urls, posts, submitOutcome>>
    /\ UNCHANGED otherThanBatch

\* Lines 147-150: a poll answered with any other status.
PollOtherStatus ==
    /\ bpc = "poll"
    /\ polls' = polls + 1
    /\ \E k \in OtherStatuses :
          /\ lastPoll' = [kind |-> k, hasData |-> FALSE, data |-> << >>]
          /\ bpc' = AfterPoll(k)
    /\ status' = "Failed"
    /\ failed_count' = Remaining(successful_results)
    /\ batch_result' = Result(successful_results, Remaining(successful_results))
    /\ UNCHANGED <<all_urls, unique_urls, posts, submitOutcome,
                   successful_results>>
    /\ UNCHANGED otherThanBatch

\* Lines 152-159: the GET raises (network error, non-2xx status, a body that
\* is not JSON).
PollError ==
    /\ bpc = "poll"
    /\ polls' = polls + 1
    /\ lastPoll' = [kind |-> "error", hasData |-> FALSE, data |-> << >>]
    /\ bpc' = AfterPoll("error")
    /\ status' = "Failed"
    /\ failed_count' = Remaining(successful_results)
    /\ batch_result' = Result(successful_results, Remaining(successful_results))
    /\ UNCHANGED <<all_urls, unique_urls, posts, submitOutcome,
                   successful_results>>
    /\ UNCHANGED otherThanBatch

BatchNext ==
    \/ MainDedup
    \/ Submit
    \/ PollPending
    \/ Sleep
    \/ PollCompleted
    \/ PollOtherStatus
    \/ PollError

\* One call of scrape_urls_batch from main().
BatchSpec == BatchInit /\ [][BatchNext]_vars

\* The same call when every step that can be taken is eventually taken: the
\* requests return (timeouts of lines 91 and 115) and time.sleep returns.
\* PollPending is enabled at most MaxPolls times, so this is the call
\* against a backend that eventually stops answering pending-like.
BatchLiveSpec == BatchInit /\ [][BatchNext]_vars /\ WF_vars(BatchNext)

(***************************************************************************)
(* The domain filter is_denied_domain (retrieve_url/url_utils.py)          *)
(***************************************************************************)

\* A URL is the sequence of its characters.  The URLs tried are made of an
\* optional scheme "h:" and "//", an authority (a host over a, b and the
\* dot, alone or with a user "u@", a port ":8" or an unmatched "["), and an
\* optional path "/x".
HostChars == {"a", "b", "."}

HostTexts == SeqsUpTo(HostChars, MaxHostLen)

Prefixes == {<<"h", ":", "/", "/">>, <<"/", "/">>, << >>}

Authorities ==
    UNION {{h, <<"u", "@">> \o h, h \o <<":", "8">>, <<"[">> \o h} :
              h \in HostTexts}

Suffixes == {<< >>, <<"/", "x">>}

UrlTexts == {p \o a \o x : p \in Prefixes, a \in Authorities, x \in Suffixes}

\* The denylist entries tried: domain names (no empty label).
DenyEntries ==
    {e \in SeqsUpTo(HostChars, MaxEntryLen) \ {<< >>} :
        /\ e[1] # "."
        /\ e[Len(e)] # "."
        /\ \A k \in 1 .. Len(e) - 1 : ~(e[k] = "." /\ e[k + 1] = ".")}

Letters == {"h", "a", "b", "u", "x"}

\* urllib.parse: scheme_chars (letters, digits, "+", "-", ".").
SchemeChars == Letters \cup {"8", "."}

\* The first index of a character of cs in s from index from on, or
\* Len(s) + 1.
RECURSIVE FindFirst(_, _, _)
FindFirst(s, cs, from) ==
    IF from > Len(s) \/ s[from] \in cs
        THEN from
        ELSE FindFirst(s, cs, from + 1)

StartsWith(s, p) == Len(p) <= Len(s) /\ SubSeq(s, 1, Len(p)) = p

EndsWith(s, p) ==
    Len(p) <= Len(s) /\ SubSeq(s, Len(s) - Len(p) + 1, Len(s)) = p

\* urlsplit: a scheme is split off when the text before the first ":" is
\* not empty, starts with a letter and holds scheme characters only.
AfterScheme(url) ==
    LET i == FindFirst(url, {":"}, 1)
    IN  IF /\ i <= Len(url)
           /\ i > 1
           /\ url[1] \in Letters
           /\ \A k \in 1 .. i - 1 : url[k] \in SchemeChars
            THEN SubSeq(url, i + 1, Len(url))
            ELSE url

\* urlparse(url): the netloc is what stands between a leading "//" and the
\* next "/", "?" or "#"; an unmatched bracket in it raises ValueError.
urlparse(url) ==
    LET rest   == AfterScheme(url)
        netloc == IF StartsWith(rest, <<"/", "/">>)
                      THEN SubSeq(rest, 3,
                                  FindFirst(rest, {"/", "?", "#"}, 3) - 1)
                      ELSE << >>
        open   == \E k \in DOMAIN netloc : netloc[k] = "["
        close  == \E k \in DOMAIN netloc : netloc[k] = "]"
    IN  [raises |-> open # close, netloc |-> netloc]

\* The host of a parsed URL (urllib.parse hostname): the netloc without
\* the user part before "@" and without the port after ":".
RECURSIVE LastIndex(_, _, _)
LastIndex(s, c, i) ==
    IF i = 0 \/ s[i] = c THEN i ELSE LastIndex(s, c, i - 1)

hostname(netloc) ==
    LET at       == LastIndex(netloc, "@", Len(netloc))
        hostport == SubSeq(netloc, at + 1, Len(netloc))
    IN  SubSeq(hostport, 1, FindFirst(hostport, {":"}, 1) - 1)

\* Whether domain matches a denylist entry: equal to it or a subdomain.
Matches(domain, denied) ==
    \E d \in DOMAIN denied :
        domain = denied[d] \/ EndsWith(domain, <<".">> \o denied[d])

\* is_denied_domain, lines 6-19.
is_denied_domain(url, denied) ==
    IF denied = << >>
        THEN FALSE
        ELSE IF urlparse(url).raises
                THEN FALSE
                ELSE Matches(urlparse(url).netloc, denied)

DenyInit ==
    /\ deny_url \in UrlTexts
    /\ denied_domains \in SeqsUpTo(DenyEntries, MaxDenied)
    /\ deny_result = NotCalled
    /\ PathIdle
    /\ BatchIdle
    /\ CollectIdle
    /\ SaveIdle
    /\ PoolIdle
    /\ StagesIdle

CallIsDenied ==
    /\ ~deny_result.returned
    /\ deny_result' =
          [returned |-> TRUE,
           value    |-> is_denied_domain(deny_url, denied_domains)]
    /\ UNCHANGED <<deny_url, denied_domains, task_a, task_b, path_a, path_b>>
    /\ UNCHANGED <<poolVars, batchVars, collectVars, saveVars, stageVars>>

DenyNext == CallIsDenied

\* is_denied_domain applied to a URL and a denylist.
DenySpec == DenyInit /\ [][DenyNext]_vars

(***************************************************************************)
(* Collection of the tasks: the loop over the input files                  *)
(***************************************************************************)

\* The input files in the order find_json_files returns them (sorted).  A
\* file is unreadable (parse_json_file raises), or holds entries whose URLs
\* carry no PDF mark ("web"), or entries whose URLs are marked as PDF
\* ("pdf": a dorks string with filetype:pdf, or an is_pdf tag).  urls lists
\* the URL occurrences of the file in document order.  retrieve_url writes
\* one file per category, so the index of a file also stands for the
\* category of its entries, and the position of an occurrence for the
\* question of its entry.
FileKinds == {"unreadable", "web", "pdf"}

FileNumbers == 1 .. MaxFiles

UrlsOf(occ, fileOf, f) ==
    LET idx == SelectSeq([i \in 1 .. Len(occ) |-> i],
                         LAMBDA i : fileOf[i] = f)
    IN  [k \in 1 .. Len(idx) |-> occ[idx[k]]]

\* d[k] = v on a dict.
Put(d, k, v) == [x \in DOMAIN d \cup {k} |-> IF x = k THEN v ELSE d[x]]

LastIndexOf(us, u) ==
    CHOOSE i \in DOMAIN us :
        us[i] = u /\ \A j \in DOMAIN us : us[j] = u => j <= i

\* save_screenshot/json_parser.py, extract_urls_from_json_file: one dict per
\* URL occurrence, then {item["url"]: item for item in ...}: a URL keeps the
\* place of its first occurrence and the fields of its last one.
extract_urls_from_json_file(f) ==
    LET us   == json_files[f].urls
        keys == DictFromKeys(us, 1, << >>)
    IN  [k \in DOMAIN keys |->
            [url          |-> keys[k],
             categoryName |-> f,
             question     |-> LastIndexOf(us, keys[k]),
             is_pdf       |-> json_files[f].kind = "pdf"]]

\* save_datasource main(), lines 230-241, over a list of dict items.
RECURSIVE CollectItems(_, _, _, _)
CollectItems(items, i, f, acc) ==
    IF i > Len(items)
        THEN acc
        ELSE IF ~items[i].is_pdf
                THEN CollectItems(items, i + 1, f,
                        [acc EXCEPT
                            !.urls = Append(@, items[i].url),
                            !.map  = Put(@, items[i].url,
                                [categoryName |-> items[i].categoryName,
                                 question     |-> items[i].question,
                                 input_file   |-> f])])
                ELSE CollectItems(items, i + 1, f,
                        [acc EXCEPT !.skipped = Append(@, items[i].url)])

\* Whether the body of the try statement raises for file f: parse_json_file
\* raises, or (save_datasource main(), line 231) item["url"] is applied to
\* the first element of a list of tuples.
FileRaises(f) ==
    \/ json_files[f].kind = "unreadable"
    \/ /\ stage = "datasource"
       /\ ~itemIsDict
       /\ json_files[f].urls # << >>

\* Where main() is once the loop over the files has ended.
AfterFiles(urls, puts) ==
    IF stage = "datasource"
        THEN IF urls = << >> THEN "exit" ELSE "dedup"
        ELSE IF puts = << >> THEN "exit" ELSE "queued"

\* The text of the URL numbered u: "h://" host "/x", with host "a" for
\* URL 1 and "bb", "bbb", ... for the others.
UrlText(u) ==
    <<"h", ":", "/", "/">>
        \o (IF u = 1 THEN <<"a">> ELSE [i \in 1 .. u |-> "b"])
        \o <<"/", "x">>

\* The denied_domains argument the pipeline gives to the retrieval stage:
\* run_url_retrieval passes none (src/main.py line 133), so the parameter
\* keeps its default None.
PassedDeniedDomains == << >>

\* The URLs search_and_save_urls can write to an input file: those its
\* filter lets through (retrieve_url/main.py lines 36-38).
RetrievableUrls ==
    {u \in Urls : ~is_denied_domain(UrlText(u), PassedDeniedDomains)}

\* State at line 221 of save_datasource main() and at line 166 of
\* save_screenshot main(): json_files is not empty.  save_screenshot imports
\* the extractor that returns dicts.  save_datasource imports the one of
\* save_datasource/json_parser.py, which returns (url, is_pdf) tuples
\* (itemIsDict = FALSE); itemIsDict = TRUE is the list of dicts that lines
\* 231-238 read.  denied_domains is the denylist of the run: src/main.py
\* reads none from the configuration and neither main() has a parameter
\* for one, so nothing ties the input files to it.
CollectInit ==
    /\ stage \in {"datasource", "screenshot"}
    /\ itemIsDict \in BOOLEAN
    /\ stage = "screenshot" => itemIsDict
    /\ denied_domains \in {<< >>, << <<"a">> >>}
    /\ deny_url = << >>
    /\ deny_result = NotCalled
    /\ \E n \in FileNumbers, occ \in SeqsUpTo(RetrievableUrls, MaxEntries) :
          \E kinds \in [1 .. n -> FileKinds],
             fileOf \in [1 .. Len(occ) -> 1 .. n] :
             /\ \A i, j \in 1 .. Len(occ) : i < j => fileOf[i] <= fileOf[j]
             /\ json_files = [f \in 1 .. n |->
                                 [kind |-> kinds[f],
                                  urls |-> UrlsOf(occ, fileOf, f)]]
    /\ fileIdx = 0
    /\ enqueued = << >>
    /\ url_metadata_mapping = << >>
    /\ file_errors = {}
    /\ pdf_skipped = << >>
    /\ downloads = << >>
    /\ bpc = "files"
    /\ all_urls = << >>
    /\ unique_urls = << >>
    /\ status = "Idle"
    /\ posts = 0
    /\ polls = 0
    /\ submitOutcome = "none"
    /\ lastPoll = NoPoll
    /\ successful_results = << >>
    /\ failed_count = 0
    /\ batch_result = NoResult
    /\ PoolIdle
    /\ StagesIdle
    /\ SaveIdle
    /\ PathIdle

\* One iteration of the loop over json_files: lines 227-243 of
\* save_datasource main(), lines 169-176 of save_screenshot main().  An
\* exception anywhere in the body is logged and the loop goes on with the
\* next file.  download_pdf and print_to_pdf have no caller.
ExtractFile ==
    /\ bpc = "files"
    /\ fileIdx < Len(json_files)
    /\ fileIdx' = fileIdx + 1
    /\ LET f     == fileIdx + 1
           items == extract_urls_from_json_file(f)
           r     == CollectItems(items, 1, f,
                        [urls |-> all_urls, map |-> url_metadata_mapping,
                         skipped |-> pdf_skipped])
           puts  == [k \in DOMAIN items |->
                        [item |-> items[k], json_file |-> f]]
       IN  /\ file_errors' =
                 IF FileRaises(f) THEN file_errors \cup {f} ELSE file_errors
           /\ all_urls' =
                 IF FileRaises(f) \/ stage = "screenshot"
                     THEN all_urls ELSE r.urls
           /\ url_metadata_mapping' =
                 IF FileRaises(f) \/ stage = "screenshot"
                     THEN url_metadata_mapping ELSE r.map
           /\ pdf_skipped' =
                 IF FileRaises(f) \/ stage = "screenshot"
                     THEN pdf_skipped ELSE r.skipped
           /\ enqueued' =
                 IF FileRaises(f) \/ stage = "datasource"
                     THEN enqueued ELSE enqueued \o puts
    /\ bpc' = IF fileIdx' = Len(json_files)
                 THEN AfterFiles(all_urls', enqueued') ELSE "files"
    /\ UNCHANGED <<stage, itemIsDict, json_files, downloads>>
    /\ UNCHANGED <<unique_urls, status, posts, polls, submitOutcome, lastPoll,
                   successful_results, failed_count, batch_result>>
    /\ UNCHANGED <<poolVars, saveVars, fnVars, stageVars>>

CollectNext ==
    \/ ExtractFile
    \/ MainDedup

\* Both main() functions from the loop over the input files to the point
\* where the tasks are handed on: the call of scrape_urls_batch, or the
\* start of the worker threads.
CollectSpec == CollectInit /\ [][CollectNext]_vars

(***************************************************************************)
(* Saving of the scrape results and aggregation of the metadata            *)
(***************************************************************************)

\* A result without metadata.sourceURL, or with an empty one (line 261).
NoUrl == 0

\* The default category of lines 281 and 40.
Uncategorized == 0

PositionIn(l, x) == CHOOSE i \in DOMAIN l : l[i] = x

\* What the backend can report as sourceURL of a result: nothing, a URL
\* that was submitted, or another URL.
SourceUrls == {NoUrl} \cup Urls

\* How saving one result can end: the file is written, mkdir or open
\* raises, or the write raises after the file was opened.
SaveOutcomes == {"ok", "open_raises", "write_raises"}

\* os.relpath(create_output_path(input_file, url, ...), output_dir): the
\* directory made from the input file and the name made from the URL.
ContentFilePath(input_file, url) == [dir |-> input_file, name |-> url]

\* Lines 266-267: url_metadata_mapping.get(url, {}) and the fallback to
\* json_files[0].
InputFileOf(url) ==
    IF url \in DOMAIN url_metadata_mapping
        THEN url_metadata_mapping[url].input_file
        ELSE 1

\* Lines 280-287.
EntryMetadata(url) ==
    [categoryName    |-> IF url \in DOMAIN url_metadata_mapping
                            THEN url_metadata_mapping[url].categoryName
                            ELSE Uncategorized,
     question        |-> IF url \in DOMAIN url_metadata_mapping
                            THEN url_metadata_mapping[url].question
                            ELSE 0,
     contentFilePath |-> ContentFilePath(InputFileOf(url), url),
     url             |-> url,
     sourceType      |-> "web",
     questionCount   |-> 0]

\* Faulty variant of AppendToCategory: the entry replaces the group's list.
AppendToCategoryOverwrites(groups, c, e) ==
    IF \E k \in DOMAIN groups : groups[k].categoryName = c
        THEN [k \in DOMAIN groups |->
                IF groups[k].categoryName = c
                    THEN [groups[k] EXCEPT !.entries = <<e>>]
                    ELSE groups[k]]
        ELSE Append(groups, [categoryName |-> c, entries |-> <<e>>])

\* categorized_metadata[category_name].append(...) on a defaultdict(list),
\* whose keys keep their insertion order (src/main.py lines 38-46).
AppendToCategory(groups, c, e) ==
    IF \E k \in DOMAIN groups : groups[k].categoryName = c
        THEN [k \in DOMAIN groups |->
                IF groups[k].categoryName = c
                    THEN [groups[k] EXCEPT !.entries = Append(@, e)]
                    ELSE groups[k]]
        ELSE Append(groups, [categoryName |-> c, entries |-> <<e>>])

\* The four keys aggregate_metadata_to_file copies (lines 41-46).
Projected(entry) ==
    [contentFilePath |-> entry.contentFilePath,
     questionCount   |-> entry.questionCount,
     url             |-> entry.url,
     sourceType      |-> entry.sourceType]

\* aggregate_metadata_to_file, lines 38-54: final_output.
RECURSIVE aggregate_metadata_to_file(_, _, _)
aggregate_metadata_to_file(metadata_entries, i, groups) ==
    IF i > Len(metadata_entries)
        THEN groups
        ELSE aggregate_metadata_to_file(metadata_entries, i + 1,
                 AppendToCategory(groups, metadata_entries[i].categoryName,
                                  Projected(metadata_entries[i])))

\* State at line 256 of save_datasource main(), reached with dict items:
\* unique_urls holds no duplicate and every URL in it has its
\* url_metadata_mapping entry, whose input_file is one of json_files.
SaveInit ==
    /\ stage = "datasource"
    /\ itemIsDict = TRUE
    /\ \E n \in FileNumbers, us \in SeqsUpTo(Urls, MaxUrls) \ {<< >>} :
          \E fileOfUrl \in [Range(us) -> 1 .. n] :
             /\ IsDeduplicated(us)
             /\ unique_urls = us
             /\ all_urls = us
             /\ json_files =
                   [f \in 1 .. n |->
                       [kind |-> "web",
                        urls |-> SelectSeq(us, LAMBDA u : fileOfUrl[u] = f)]]
             /\ url_metadata_mapping =
                   [u \in Range(us) |->
                       [categoryName |-> fileOfUrl[u],
                        question     |->
                            PositionIn(SelectSeq(us,
                                LAMBDA v : fileOfUrl[v] = fileOfUrl[u]), u),
                        input_file   |-> fileOfUrl[u]]]
             /\ fileIdx = n
    /\ enqueued = << >>
    /\ file_errors = {}
    /\ pdf_skipped = << >>
    /\ downloads = << >>
    /\ bpc = "submit"
    /\ status = "Idle"
    /\ posts = 0
    /\ polls = 0
    /\ submitOutcome = "none"
    /\ lastPoll = NoPoll
    /\ successful_results = << >>
    /\ failed_count = 0
    /\ batch_result = NoResult
    /\ SaveIdle
    /\ PoolIdle
    /\ StagesIdle
    /\ FnIdle

\* Line 256: scrape_urls_batch returns.  Its data list holds the results
\* that had markdown, each with the sourceURL the backend reported; the
\* results without markdown were counted as failed.
ScrapeReturns ==
    /\ bpc = "submit"
    /\ \E d \in SeqsUpTo([sourceURL : SourceUrls], MaxItems) :
          \E nf \in 0 .. (MaxItems - Len(d)) :
             batch_result' = Result(d, nf)
    /\ bpc' = "save"
    /\ UNCHANGED <<all_urls, unique_urls, status, posts, polls, submitOutcome,
                   lastPoll, successful_results, failed_count>>
    /\ UNCHANGED <<collectVars, saveVars, poolVars, fnVars, stageVars>>

\* One iteration of the loop of lines 259-291.
SaveResult ==
    /\ bpc = "save"
    /\ saveIdx < Len(batch_result.data)
    /\ saveIdx' = saveIdx + 1
    /\ LET url == batch_result.data[saveIdx + 1].sourceURL
       IN  IF url = NoUrl
               THEN UNCHANGED <<written, collected_metadata>>
               ELSE \E o \in SaveOutcomes :
                       /\ written' =
                             IF o = "open_raises"
                                 THEN written
                                 ELSE Append(written,
                                         [path |-> ContentFilePath(
                                                      InputFileOf(url), url),
                                          url |-> url,
                                          complete |-> o = "ok"])
                       /\ collected_metadata' =
                             IF o = "ok"
                                 THEN Append(collected_metadata,
                                             EntryMetadata(url))
                                 ELSE collected_metadata
    /\ UNCHANGED <<final_output, bpc>>
    /\ UNCHANGED <<all_urls, unique_urls, status, posts, polls, submitOutcome,
                   lastPoll, successful_results, failed_count, batch_result>>
    /\ UNCHANGED <<collectVars, poolVars, fnVars, stageVars>>

\* Line 295: main() returns collected_metadata.
MainReturns ==
    /\ bpc = "save"
    /\ saveIdx = Len(batch_result.data)
    /\ bpc' = "saved"
    /\ UNCHANGED <<all_urls, unique_urls, status, posts, polls, submitOutcome,
                   lastPoll, successful_results, failed_count, batch_result>>
    /\ UNCHANGED <<collectVars, saveVars, poolVars, fnVars, stageVars>>

\* src/main.py line 192: aggregate_metadata_to_file on the entries main()
\* returned; the write of lines 56-62 succeeds or raises and is logged.
Aggregate ==
    /\ bpc = "saved"
    /\ bpc' = "aggregated"
    /\ \E ok \in BOOLEAN :
          final_output' =
              IF ok
                  THEN [written |-> TRUE,
                        groups  |-> aggregate_metadata_to_file(
                                        collected_metadata, 1, << >>)]
                  ELSE NotWritten
    /\ UNCHANGED <<saveIdx, written, collected_metadata>>
    /\ UNCHANGED <<all_urls, unique_urls, status, posts, polls, submitOutcome,
                   lastPoll, successful_results, failed_count, batch_result>>
    /\ UNCHANGED <<collectVars, poolVars, fnVars, stageVars>>

SaveNext ==
    \/ ScrapeReturns
    \/ SaveResult
    \/ MainReturns
    \/ Aggregate

\* save_datasource main() from the return of scrape_urls_batch to the
\* written datasource_metadata.json.
SaveSpec == SaveInit /\ [][SaveNext]_vars

\* The entries aggregate_metadata_to_file can be given: any list of
\* metadata entries, each with a category (a file's category or the default
\* one) and a URL.
MetadataEntries ==
    {[categoryName    |-> c,
      question        |-> 0,
      contentFilePath |-> ContentFilePath(c, u),
      url             |-> u,
      sourceType      |-> "web",
      questionCount   |-> 0] : c \in {Uncategorized} \cup FileNumbers,
                               u \in Urls}

AggregateInit ==
    /\ collected_metadata \in SeqsUpTo(MetadataEntries, MaxEntries)
    /\ bpc = "saved"
    /\ saveIdx = 0
    /\ written = << >>
    /\ final_output = NotWritten
    /\ all_urls = << >>
    /\ unique_urls = << >>
    /\ status = "Idle"
    /\ posts = 0
    /\ polls = 0
    /\ submitOutcome = "none"
    /\ lastPoll = NoPoll
    /\ successful_results = << >>
    /\ failed_count = 0
    /\ batch_result = NoResult
    /\ CollectIdle
    /\ PoolIdle
    /\ StagesIdle
    /\ FnIdle

AggregateNext == Aggregate

\* aggregate_metadata_to_file applied to a list of entries.
AggregateSpec == AggregateInit /\ [][AggregateNext]_vars

(***************************************************************************)
(* The path mapper create_output_path / create_safe_filename               *)
(***************************************************************************)

\* filename[:100] (line 56 of save_datasource/main.py, line 104 of
\* save_screenshot/main.py).
MaxNameLen == 100

Https == <<"h", "t", "t", "p", "s", ":", "/", "/">>

Http == <<"h", "t", "t", "p", ":", "/", "/">>

\* The URLs tried: a protocol, a one-letter host and a short text over a
\* letter and the characters the sanitiser touches.
BodyChars == {"a", "/", ".", "_"}

PathUrls == {p \o <<"a">> \o b : p \in {Https, Http},
                                 b \in SeqsUpTo(BodyChars, MaxBodyLen)}

\* str.replace(old, new): every occurrence, from left to right.
Replace(str, old, new) ==
    LET n == Len(str)
        m == Len(old)
        w == IF Len(new) > 1 THEN Len(new) ELSE 1
        \* where old occurs, and the occurrences a scan from the left
        \* takes: those that no taken occurrence before them overlaps
        occurs == {i \in 1 .. n : /\ i + m - 1 <= n
                                  /\ SubSeq(str, i, i + m - 1) = old}
        taken == CHOOSE t \in SUBSET occurs :
                     \A i \in occurs :
                         i \in t <=> ~\E j \in t : i - m < j /\ j < i
        \* w slots per character: a taken occurrence gives new at its
        \* first character and nothing at the others, any other character
        \* gives itself
        Slot(s) ==
            LET i == ((s - 1) \div w) + 1
                r == ((s - 1) % w) + 1
            IN  IF i \in taken
                    THEN [keep |-> r <= Len(new),
                          ch |-> IF r <= Len(new) THEN new[r] ELSE str[i]]
                    ELSE [keep |-> /\ r = 1
                                   /\ ~\E j \in taken : j < i /\ i < j + m,
                          ch |-> str[i]]
        Kept(sl) == sl.keep
        kept == SelectSeq([s \in 1 .. n * w |-> Slot(s)], Kept)
    IN  SubSeq([x \in 1 .. Len(kept) |-> kept[x].ch], 1, Len(kept))

\* The name used for an empty filename and the extension of the file.
DefaultName(st) ==
    IF st = "datasource"
        THEN <<"c", "o", "n", "t", "e", "n", "t">>
        ELSE <<"s", "c", "r", "e", "e", "n", "s", "h", "o", "t">>

Extension(st) ==
    IF st = "datasource" THEN <<".", "m", "d">> ELSE <<".", "p", "n", "g">>

\* Faulty variant of SafeFilename: the name is not cut at MaxNameLen.
SafeFilenameUncut(url, st) ==
    LET f1 == Replace(Replace(url, Https, << >>), Http, << >>)
        f2 == Replace(Replace(Replace(f1, <<"/">>, <<"_">>),
                              <<"?">>, <<"_">>), <<"&">>, <<"_">>)
        f3 == Replace(Replace(Replace(f2, <<":">>, <<"_">>),
                              <<"=">>, <<"_">>), <<".">>, <<"_">>)
    IN  IF f3 = << >> THEN DefaultName(st) ELSE f3

\* create_safe_filename on the characters of the URL.
SafeFilename(url, st) ==
    LET f1 == Replace(Replace(url, Https, << >>), Http, << >>)
        f2 == Replace(Replace(Replace(f1, <<"/">>, <<"_">>),
                              <<"?">>, <<"_">>), <<"&">>, <<"_">>)
        f3 == Replace(Replace(Replace(f2, <<":">>, <<"_">>),
                              <<"=">>, <<"_">>), <<".">>, <<"_">>)
        f4 == IF Len(f3) > MaxNameLen THEN SubSeq(f3, 1, MaxNameLen) ELSE f3
    IN  IF f4 = << >> THEN DefaultName(st) ELSE f4

\* create_output_path: the directory made from the input file (its path
\* relative to input_dir without the extension, one per input file) and
\* the file name made from the URL.
create_output_path(input_file, url, st) ==
    [dir |-> input_file, name |-> SafeFilename(url, st) \o Extension(st)]

PathInit ==
    /\ stage \in {"datasource", "screenshot"}
    /\ task_a \in [json_file : FileNumbers, url : PathUrls]
    /\ task_b \in [json_file : FileNumbers, url : PathUrls]
    /\ path_a = NoPath
    /\ path_b = NoPath
    /\ itemIsDict = FALSE
    /\ json_files = << >>
    /\ fileIdx = 0
    /\ enqueued = << >>
    /\ url_metadata_mapping = << >>
    /\ file_errors = {}
    /\ pdf_skipped = << >>
    /\ downloads = << >>
    /\ DenyIdle
    /\ BatchIdle
    /\ SaveIdle
    /\ PoolIdle
    /\ StagesIdle

CreatePathA ==
    /\ path_a = NoPath
    /\ path_a' = create_output_path(task_a.json_file, task_a.url, stage)
    /\ UNCHANGED <<deny_url, denied_domains, deny_result, task_a, task_b,
                   path_b>>
    /\ UNCHANGED <<poolVars, batchVars, collectVars, saveVars, stageVars>>

CreatePathB ==
    /\ path_b = NoPath
    /\ path_b' = create_output_path(task_b.json_file, task_b.url, stage)
    /\ UNCHANGED <<deny_url, denied_domains, deny_result, task_a, task_b,
                   path_a>>
    /\ UNCHANGED <<poolVars, batchVars, collectVars, saveVars, stageVars>>

PathNext ==
    \/ CreatePathA
    \/ CreatePathB

\* create_output_path applied to two tasks of one run.
PathSpec == PathInit /\ [][PathNext]_vars

(***************************************************************************)
(* Question generation: generate_questions                                 *)
(* (dataset/questions/question_generation.py)                              *)
(***************************************************************************)

\* retry_delay: int = 2 (line 22); main() does not pass it.
retry_delay == 2

\* How one pass through the try body (lines 55-80) ends.  The first is the
\* return of line 80; the next four raise what the except clause of lines
\* 82-86 catches (RequestException from post or raise_for_status or
\* response.json(), ValueError of line 70, JSONDecodeError of line 72,
\* ValueError of line 76); the last raises a TypeError (json.loads of a
\* "response" that is no string), which the clause does not catch.
CaughtOutcomes == {"request_error", "no_response", "bad_json", "empty"}

GenOutcomes == {"questions", "type_error"} \cup CaughtOutcomes

\* if attempt < retries (line 88), mutated to sleep after every failure.
SleepAfterEveryFailure(a, r) == TRUE

\* if attempt < retries (line 88).
RetryLeft(a, r) == a < r

GenInit ==
    /\ gpc = "for"
    /\ retries \in 0 .. MaxRetries
    /\ attempt = 0
    /\ gen_outcomes = << >>
    /\ gen_sleeps = << >>
    /\ StagesIdleExcept("gen")
    /\ PoolIdle
    /\ BatchIdle
    /\ CollectIdle
    /\ SaveIdle
    /\ FnIdle

\* for attempt in range(1, retries + 1): the next value, or the raise of
\* line 94 when the range is exhausted.
GenFor ==
    /\ gpc = "for"
    /\ IF attempt < retries
          THEN /\ attempt' = attempt + 1
               /\ gpc' = "try"
          ELSE /\ gpc' = "raised"
               /\ UNCHANGED attempt
    /\ UNCHANGED <<retries, gen_outcomes, gen_sleeps>>
    /\ UNCHANGED <<poolVars, batchVars, collectVars, saveVars, fnVars>>
    /\ OtherStagesUnchanged("gen")

\* The try body of lines 54-80 and the except clause up to line 88.
GenTry ==
    /\ gpc = "try"
    /\ \E o \in GenOutcomes :
          /\ gen_outcomes' = Append(gen_outcomes, o)
          /\ gpc' = IF o = "questions" THEN "returned"
                    ELSE IF o = "type_error" THEN "escaped"
                    ELSE IF RetryLeft(attempt, retries) THEN "sleep"
                    ELSE "for"
    /\ UNCHANGED <<retries, attempt, gen_sleeps>>
    /\ UNCHANGED <<poolVars, batchVars, collectVars, saveVars, fnVars>>
    /\ OtherStagesUnchanged("gen")

\* time.sleep(retry_delay) of line 90.
GenSleep ==
    /\ gpc = "sleep"
    /\ gen_sleeps' = Append(gen_sleeps, [requests |-> Len(gen_outcomes),
                                         delay |-> retry_delay])
    /\ gpc' = "for"
    /\ UNCHANGED <<retries, attempt, gen_outcomes>>
    /\ UNCHANGED <<poolVars, batchVars, collectVars, saveVars, fnVars>>
    /\ OtherStagesUnchanged("gen")

GenNext ==
    \/ GenFor
    \/ GenTry
    \/ GenSleep

\* generate_questions called once; the calling thread keeps running and
\* every request ends (timeout=request_timeout).
GenSpec == GenInit /\ [][GenNext]_vars /\ WF_vars(GenNext)

(***************************************************************************)
(* create_output_path with the directories it is given                     *)
(***************************************************************************)

\* A path is a flag (absolute or not) and its components; a component is a
\* name and an extension.
Dir(n) == [stem |-> n, ext |-> ""]

JsonFile(n) == [stem |-> n, ext |-> ".json"]

InputDirs == {[abs |-> FALSE, parts |-> <<Dir("in")>>],
              [abs |-> TRUE, parts |-> <<Dir("in")>>],
              [abs |-> TRUE, parts |-> <<Dir("w"), Dir("in")>>]}

OutputDirs == {[abs |-> FALSE, parts |-> <<Dir("out")>>],
               [abs |-> TRUE, parts |-> <<Dir("w"), Dir("out")>>]}

\* Where find_json_files finds a file below the input directory.
SubPaths == {<<JsonFile("q")>>, <<Dir("c"), JsonFile("q")>>}

\* The working directories tried (absolute).
WorkDirs == {<< >>, <<Dir("w")>>, <<Dir("in")>>}

\* How many evaluations of one argument tuple are compared.
Evaluations == 2

\* os.path.abspath: the components from the root.
abspath(path, cwd) == IF path.abs THEN path.parts ELSE cwd \o path.parts

RECURSIVE CommonLen(_, _)
CommonLen(p, q) ==
    IF p = << >> \/ q = << >> \/ Head(p) # Head(q)
        THEN 0
        ELSE 1 + CommonLen(Tail(p), Tail(q))

\* os.path.relpath(input_file), the start argument forgotten.
RelpathFromCwd(path, start, cwd) ==
    LET p == abspath(path, cwd)
        c == CommonLen(p, cwd)
    IN  [i \in 1 .. Len(cwd) - c |-> Dir("..")] \o SubSeq(p, c + 1, Len(p))

\* os.path.relpath(path, start): both made absolute, then one ".." for
\* each component of start below the common prefix, then the rest of path.
relpath(path, start, cwd) ==
    LET p == abspath(path, cwd)
        s == abspath(start, cwd)
        c == CommonLen(p, s)
    IN  [i \in 1 .. Len(s) - c |-> Dir("..")] \o SubSeq(p, c + 1, Len(p))

\* os.path.splitext(rel_path)[0]: the last component loses its extension.
splitext(parts) ==
    IF parts = << >>
        THEN parts
        ELSE [parts EXCEPT ![Len(parts)] = Dir(parts[Len(parts)].stem)]

\* create_output_path with all four arguments (lines 26-43 of
\* save_datasource/main.py, lines 59-85 of save_screenshot/main.py).
OutputPath(input_file, url, input_dir, output_dir, cwd, st) ==
    LET rel_path == relpath(input_file, input_dir, cwd)
        rel_dir == splitext(rel_path)
    IN  [abs |-> output_dir.abs,
         dir |-> output_dir.parts \o rel_dir,
         name |-> SafeFilename(url, st) \o Extension(st)]

\* The argument tuples of a run: input_file is a file find_json_files
\* returned for input_dir (lines 214 and 229).
MapArgs == UNION {{[input_file |-> [abs |-> d.abs, parts |-> d.parts \o sub],
                    url |-> u, input_dir |-> d, output_dir |-> o] :
                       u \in PathUrls, o \in OutputDirs, sub \in SubPaths} :
                  d \in InputDirs}

MapInit ==
    /\ stage \in {"datasource", "screenshot"}
    /\ map_args \in MapArgs
    /\ map_cwd \in [1 .. Evaluations -> WorkDirs]
    /\ map_paths = << >>
    /\ itemIsDict = FALSE
    /\ json_files = << >>
    /\ fileIdx = 0
    /\ enqueued = << >>
    /\ url_metadata_mapping = << >>
    /\ file_errors = {}
    /\ pdf_skipped = << >>
    /\ downloads = << >>
    /\ StagesIdleExcept("map")
    /\ FnIdle
    /\ BatchIdle
    /\ SaveIdle
    /\ PoolIdle

\* One evaluation of create_output_path(input_file, url, input_dir,
\* output_dir) in the working directory of that moment.
EvaluatePath ==
    /\ map_args # << >>
    /\ Len(map_paths) < Evaluations
    /\ map_paths' = Append(map_paths,
                           OutputPath(map_args.input_file, map_args.url,
                                      map_args.input_dir, map_args.output_dir,
                                      map_cwd[Len(map_paths) + 1], stage))
    /\ UNCHANGED <<map_args, map_cwd>>
    /\ UNCHANGED <<poolVars, batchVars, collectVars, saveVars, fnVars>>
    /\ OtherStagesUnchanged("map")

MapNext == EvaluatePath

\* create_output_path evaluated repeatedly on one argument tuple.
MapSpec == MapInit /\ [][MapNext]_vars

(***************************************************************************)
(* Browser sessions of the workers                                         *)
(* (save_screenshot/main.py worker, screenshot_capture.py)                 *)
(***************************************************************************)

\* self.driver = None (line 26 of screenshot_capture.py).
NoDriver == 0

\* Faulty variant of NeedsSetup: a browser is started for every task.
SetupForEveryTask(d) == TRUE

\* if self.driver is None (line 74): the browser is started by the first
\* capture_full_page_screenshot call that finds no driver.
NeedsSetup(d) == d = NoDriver

\* How capture_full_page_screenshot ends: webdriver.Chrome raises (line 54,
\* no session), set_page_load_timeout raises (line 57, the session exists),
\* the page is captured, or loading or capturing raises.
CaptureOutcomes == {"chrome_raises", "set_timeout_raises", "returns",
                    "raises"}

\* What worker() sees of the outcome.
CaptureResult(cap) == IF cap = "returns" THEN "returns" ELSE "raises"

\* State at line 184 of save_screenshot main(), no capturer exists yet.
SessionInit ==
    /\ PoolStart
    /\ \E b \in BOOLEAN : urlIsStr = [t \in 1 .. ntasks |-> b]
    /\ driver = [w \in 1 .. workers |-> NoDriver]
    /\ sessions = << >>
    /\ StagesIdleExcept("session")
    /\ BatchIdle
    /\ CollectIdle
    /\ SaveIdle
    /\ FnIdle

\* q.get() (line 113); on None the loop ends and the with block calls
\* capturer.close() (lines 116-120 of screenshot_capture.py): an existing
\* driver is quit and forgotten.
SessionWorkerGet(w) ==
    /\ WorkerGetPool(w)
    /\ IF Head(queue) = None /\ driver[w] # NoDriver
          THEN /\ sessions' = [sessions EXCEPT ![driver[w]].open = FALSE]
               /\ driver' = [driver EXCEPT ![w] = NoDriver]
          ELSE UNCHANGED <<driver, sessions>>
    /\ UNCHANGED <<batchVars, collectVars, saveVars, fnVars>>
    /\ OtherStagesUnchanged("session")

\* The try body of worker() with the capturer's driver (lines 72-75 of
\* screenshot_capture.py, then driver.get and the capture).
SessionWorkerTry(w) ==
    /\ \E cap \in CaptureOutcomes, wr \in {"ok", "raises"} :
          /\ WorkerTryPool(w, CaptureResult(cap), wr)
          /\ IF NeedsSetup(driver[w])
                THEN IF cap = "chrome_raises"
                        THEN UNCHANGED <<driver, sessions>>
                        ELSE /\ sessions' = Append(sessions,
                                    [owner |-> w, open |-> TRUE,
                                     users |-> IF cap = "set_timeout_raises"
                                                  THEN {} ELSE {w},
                                     tasks |-> IF cap = "set_timeout_raises"
                                                  THEN {} ELSE {item[w]}])
                             /\ driver' = [driver EXCEPT
                                              ![w] = Len(sessions) + 1]
                ELSE /\ cap \in {"returns", "raises"}
                     /\ sessions' = [sessions EXCEPT
                                        ![driver[w]].users = @ \cup {w},
                                        ![driver[w]].tasks = @ \cup {item[w]}]
                     /\ UNCHANGED driver
    /\ UNCHANGED <<batchVars, collectVars, saveVars, fnVars>>
    /\ OtherStagesUnchanged("session")

SessionNext ==
    \/ MainSpawn
    \/ MainQueueJoin
    \/ MainPutSentinel
    \/ MainThreadJoin
    \/ \E w \in Workers : SessionWorkerGet(w)
    \/ \E w \in Workers : SessionWorkerTry(w)
    \/ \E w \in Workers : WorkerTaskDone(w)

\* The worker pool with the browser session of each worker, in a run that
\* is not interrupted.
SessionSpec == SessionInit /\ [][SessionNext]_vars

(***************************************************************************)
(* What a run of either capture stage records and what it leaves on disk   *)
(***************************************************************************)

\* The file process_screenshot_for_png leaves for task t (lines 122-124 of
\* main.py, image_processor.py lines 35-54): none when the capture or the
\* path mapping raised before it, a partial one when image.save raised.
FileLeft(t, cap, wr) ==
    IF cap = "raises" \/ create_safe_filename(urlIsStr[t]) = "raises"
        THEN "none"
        ELSE IF wr = "raises" THEN "partial" ELSE "complete"

\* State at line 184 of save_screenshot main(), no file written yet.
FilesInit ==
    /\ PoolStart
    /\ \E b \in BOOLEAN : urlIsStr = [t \in 1 .. ntasks |-> b]
    /\ png_files = [t \in 1 .. ntasks |-> "none"]
    /\ StagesIdleExcept("files")
    /\ BatchIdle
    /\ CollectIdle
    /\ SaveIdle
    /\ FnIdle

\* The try body of worker() (lines 120-129) with the file it leaves.
WorkerTryFile(w) ==
    /\ \E cap \in {"returns", "raises"}, wr \in {"ok", "raises"} :
          /\ WorkerTryPool(w, cap, wr)
          /\ png_files' = [png_files EXCEPT
                              ![item[w]] = FileLeft(item[w], cap, wr)]
    /\ UNCHANGED <<batchVars, collectVars, saveVars, fnVars>>
    /\ OtherStagesUnchanged("files")

FilesNext ==
    \/ MainSpawn
    \/ MainQueueJoin
    \/ MainPutSentinel
    \/ MainThreadJoin
    \/ \E w \in Workers : WorkerGet(w)
    \/ \E w \in Workers : WorkerTryFile(w)
    \/ \E w \in Workers : WorkerTaskDone(w)

OutcomeInit == SaveInit \/ FilesInit

\* The stage that runs takes the steps.
OutcomeNext ==
    \/ mainpc = "off" /\ SaveNext
    \/ mainpc # "off" /\ FilesNext

\* One run of either capture stage: save_datasource main() from the return
\* of scrape_urls_batch on, or the worker pool of save_screenshot.
OutcomeSpec == OutcomeInit /\ [][OutcomeNext]_vars

(***************************************************************************)
(* Document intent: the two extract_urls_from_json_file and their callers  *)
(***************************************************************************)

\* The words a dorks string is made of, as written and lower-cased
\* (dorks.lower(), line 111 of save_datasource/json_parser.py).
DorkWords == {"filetype:pdf", "FileType:PDF", "site:a"}

Lower(word) == IF word = "FileType:PDF" THEN "filetype:pdf" ELSE word

\* The "dorks" value of an entry: no such key, null, or a string of words.
DorksValues == {[key |-> FALSE, words |-> << >>]}
                 \cup {[key |-> TRUE, words |-> ws] :
                          ws \in SeqsUpTo(DorkWords, MaxDorkWords)}

\* dorks.lower().find('filetype:pdf') != -1 on a truthy string.
HasPdfDirective(dorks) ==
    \E i \in 1 .. Len(dorks.words) : Lower(dorks.words[i]) = "filetype:pdf"

\* An input file with one entry.  Format "list" is what
\* search_and_save_urls writes (retrieve_url/main.py line 46: category,
\* question, dorks, urls); format "dict" is the older one (category ->
\* entries with url, question and an optional is_pdf tag).
IntentInputs ==
    {in \in [stage  : {"datasource", "screenshot"},
             format : {"list", "dict"},
             dorks  : DorksValues,
             tag    : {"absent", "true", "false"},
             urls   : {<<1>>, <<1, 2>>}] :
        /\ in.format = "list" => in.tag = "absent"
        /\ in.format = "dict" => ~in.dorks.key}

\* save_datasource/json_parser.py, lines 80-127: (url, is_pdf) tuples.  A
\* dict with the keys 'urls' and 'dorks' gets is_pdf from its dorks; any
\* other structure is searched for URL strings, with is_pdf False.
TupleExtractor(in) ==
    [kind  |-> "tuples",
     items |-> [i \in 1 .. Len(in.urls) |->
                  [url    |-> in.urls[i],
                   is_pdf |-> /\ in.format = "list"
                              /\ in.dorks.key
                              /\ HasPdfDirective(in.dorks)]]]

\* save_screenshot/json_parser.py, lines 58-99: dicts.  The list format
\* gets is_pdf False (line 79); the dict format gets the entry's tag
\* (line 87).
DictExtractor(in) ==
    [kind  |-> "dicts",
     items |-> [i \in 1 .. Len(in.urls) |->
                  [url    |-> in.urls[i],
                   is_pdf |-> in.format = "dict" /\ in.tag = "true"]]]

\* from .json_parser import extract_urls_from_json_file, in each stage.
ImportedExtractor(in) ==
    IF in.stage = "datasource" THEN TupleExtractor(in) ELSE DictExtractor(in)

IntentInit ==
    /\ ipc = "extract"
    /\ intent_input \in IntentInputs
    /\ extracted = << >>
    /\ received = << >>
    /\ PoolIdle
    /\ BatchIdle
    /\ CollectIdle
    /\ SaveIdle
    /\ FnIdle
    /\ StagesIdleExcept("intent")

\* url_info_list = extract_urls_from_json_file(json_file) (line 229 of
\* save_datasource/main.py, line 171 of save_screenshot/main.py).
ExtractorReturns ==
    /\ ipc = "extract"
    /\ extracted' = ImportedExtractor(intent_input)
    /\ ipc' = "consume"
    /\ UNCHANGED <<intent_input, received>>
    /\ UNCHANGED <<poolVars, batchVars, collectVars, saveVars, fnVars>>
    /\ OtherStagesUnchanged("intent")

\* The loop over the list.  save_datasource reads item["url"] and
\* item["is_pdf"] (lines 231-232), which raises TypeError on a tuple; the
\* except clause of line 242 ends the loop for this file.  save_screenshot
\* puts every item on the queue (lines 172-173).
MainConsumes ==
    /\ ipc = "consume"
    /\ received' = IF extracted.kind = "tuples" /\ extracted.items # << >>
                      THEN << >>
                      ELSE extracted.items
    /\ ipc' = "done"
    /\ UNCHANGED <<intent_input, extracted>>
    /\ UNCHANGED <<poolVars, batchVars, collectVars, saveVars, fnVars>>
    /\ OtherStagesUnchanged("intent")

IntentNext ==
    \/ ExtractorReturns
    \/ MainConsumes

\* One input file read by the capture stage that runs.
IntentSpec == IntentInit /\ [][IntentNext]_vars

(***************************************************************************)
(* File names: create_safe_filename of the two capture mains               *)
(***************************************************************************)

\* The characters of a URL body: a letter and the six replaced characters.
NameChars == {"a", "/", "?", "&", ":", "=", "."}

Repeat(ch, n) == SubSeq([i \in 1 .. n |-> ch], 1, n)

\* Bodies around the length limit, plain and with a replaced character at
\* the cut.
LongBodies ==
    {Repeat("a", n) \o tl : n \in (MaxNameLen - 1) .. (MaxNameLen + 1),
                            tl \in {<< >>, <<".">>, <<"/", "a">>}}

\* The URLs a task can carry: with or without a protocol, a short body of
\* any characters, a body around the length limit, or a body that spells
\* the name of a stage's fallback.
NameUrls ==
    {p \o b : p \in {<< >>, Https, Http},
              b \in SeqsUpTo(NameChars, MaxBodyLen) \cup LongBodies
                    \cup {DefaultName("datasource"),
                          DefaultName("screenshot")}}

NameInit ==
    /\ npc = "call"
    /\ name_url \in [url : NameUrls, st : {"datasource", "screenshot"}]
    /\ name_result = << >>
    /\ PoolIdle
    /\ BatchIdle
    /\ CollectIdle
    /\ SaveIdle
    /\ FnIdle
    /\ StagesIdleExcept("name")

\* create_safe_filename(url) of the stage's main module.
CreateSafeFilename ==
    /\ npc = "call"
    /\ name_result' = SafeFilename(name_url.url, name_url.st)
    /\ npc' = "done"
    /\ UNCHANGED name_url
    /\ UNCHANGED <<poolVars, batchVars, collectVars, saveVars, fnVars>>
    /\ OtherStagesUnchanged("name")

NameNext == CreateSafeFilename

NameSpec == NameInit /\ [][NameNext]_vars

(***************************************************************************)
(* URL retrieval: search_and_save_urls for one question                    *)
(***************************************************************************)

\* The loop of lines 33-42 wants this many URLs and tries this often.
WantedUrls == 5

MaxAttempts == 3

\* search_question returns at most this many URLs of a search (line 55).
TopResults == 5

\* A URL on host "a" that names a port.
PortUrl == <<"h", ":", "/", "/", "a", ":", "8", "/", "x">>

\* The URLs the search engine knows for the question, in its order: no URL
\* occurs twice in it.
Ranking ==
    <<UrlText(1), PortUrl>> \o [i \in 1 .. PoolSize - 2 |-> UrlText(i + 1)]

\* What one search can give: a run of at most n URLs of the ranking (none
\* when the search finds nothing or raises, lines 56-58).
Runs(n) ==
    UNION {{SubSeq(Ranking, s, e) :
               e \in {x \in s - 1 .. PoolSize : x - s < n}} :
                  s \in 1 .. PoolSize}

\* The denylists a caller can pass: none (the pipeline and the command
\* line) or one with the host "a".
SearchDenylists == {<< >>, << <<"a">> >>}

\* search_question(category, question_data, dorks): the question's own
\* urls when it has some (filtered with an empty denylist, lines 31-34),
\* else the top results of the search.
SearchQuestionResults(provided) ==
    IF provided # << >>
        THEN {SelectSeq(provided, LAMBDA u : ~is_denied_domain(u, << >>))}
        ELSE Runs(TopResults)

\* The loop condition of line 33.
KeepGoing(n, a) == n < WantedUrls /\ a < MaxAttempts

\* Lines 36-40: the URLs that are not denied are appended until there are
\* WantedUrls of them.
RECURSIVE Collect(_, _, _)
Collect(got, urls, denied) ==
    IF urls = << >>
        THEN got
        ELSE IF is_denied_domain(Head(urls), denied)
                THEN Collect(got, Tail(urls), denied)
                ELSE IF Len(got) + 1 >= WantedUrls
                        THEN Append(got, Head(urls))
                        ELSE Collect(Append(got, Head(urls)), Tail(urls),
                                     denied)

\* retrieved_urls[:5]
TopFive(urls) ==
    SubSeq(urls, 1, IF Len(urls) > WantedUrls THEN WantedUrls ELSE Len(urls))

SearchInit ==
    /\ spc = "while"
    /\ search_input \in [provided : Runs(PoolSize), denied : SearchDenylists]
    /\ search_results = << >>
    /\ retrieved_urls = << >>
    /\ search_attempts = 0
    /\ category_results = << >>
    /\ total_urls_found = 0
    /\ total_questions_failed = 0
    /\ PoolIdle
    /\ BatchIdle
    /\ CollectIdle
    /\ SaveIdle
    /\ FnIdle
    /\ StagesIdleExcept("search")

\* One pass of the while loop, lines 33-42: the search, the filter, the
\* count of the attempt and the sleep of one second.
SearchAttempt ==
    /\ spc = "while"
    /\ KeepGoing(Len(retrieved_urls), search_attempts)
    /\ \E result \in SearchQuestionResults(search_input.provided) :
          /\ search_results' =
                Append(search_results,
                       [urls |-> result, before |-> Len(retrieved_urls)])
          /\ retrieved_urls' =
                Collect(retrieved_urls, result, search_input.denied)
    /\ search_attempts' = search_attempts + 1
    /\ UNCHANGED <<spc, search_input, category_results, total_urls_found,
                   total_questions_failed>>
    /\ UNCHANGED <<poolVars, batchVars, collectVars, saveVars, fnVars>>
    /\ OtherStagesUnchanged("search")

\* Lines 44-50, once the loop condition is false.
SearchRecord ==
    /\ spc = "while"
    /\ ~KeepGoing(Len(retrieved_urls), search_attempts)
    /\ IF retrieved_urls # << >>
          THEN /\ category_results' =
                     Append(category_results, TopFive(retrieved_urls))
               /\ total_urls_found' =
                     total_urls_found + Len(TopFive(retrieved_urls))
               /\ UNCHANGED total_questions_failed
          ELSE /\ total_questions_failed' = total_questions_failed + 1
               /\ UNCHANGED <<category_results, total_urls_found>>
    /\ spc' = "done"
    /\ UNCHANGED <<search_input, search_results, retrieved_urls,
                   search_attempts>>
    /\ UNCHANGED <<poolVars, batchVars, collectVars, saveVars, fnVars>>
    /\ OtherStagesUnchanged("search")

SearchNext == SearchAttempt \/ SearchRecord

SearchSpec == SearchInit /\ [][SearchNext]_vars

(***************************************************************************)
(* Processing mode: main() of screenshot_processing and its text cleaner   *)
(***************************************************************************)

\* A line of recognised text after strip(): empty or not.
LineKinds == {"empty", "text"}

\* What a file gives: OCR raises, or a text of one or more lines.
OcrFiles ==
    {[ocr |-> "raises", lines |-> << >>]}
        \cup {[ocr |-> "ok", lines |-> ls] :
                 ls \in SeqsUpTo(LineKinds, MaxLines) \ {<< >>}}

\* How multiprocessing starts the workers of the Pool: a fork copies the
\* modules of the parent, a spawn imports them anew.
StartMethods == {"fork", "spawn"}

\* The values text_cleaner has when it is imported (lines 5-6).
ImportedTool == "None"

ImportedFastMode == TRUE

\* clean_text, lines 29-46: whether tool.check runs on the line.
CleanerApplies(line, use_language_tool, fast, tl) ==
    /\ line # "empty"
    /\ use_language_tool
    /\ ~fast
    /\ tl # "None"

\* init_language_tool, lines 9-12, on the globals of text_cleaner.
InitLanguageTool(fast, tl) ==
    IF ~fast /\ tl = "None" THEN "LanguageTool" ELSE tl

CleanInit ==
    /\ cpc = "main"
    /\ clean_call \in [accurate : BOOLEAN,
                       files    : SeqsUpTo(OcrFiles, MaxFiles),
                       start    : StartMethods]
    /\ main_FAST_MODE = ImportedFastMode
    /\ cleaner_FAST_MODE = ImportedFastMode
    /\ tool = ImportedTool
    /\ tool_inits = << >>
    /\ cleaned = << >>
    /\ PoolIdle
    /\ BatchIdle
    /\ CollectIdle
    /\ SaveIdle
    /\ FnIdle
    /\ StagesIdleExcept("clean")

\* main(), lines 38-43: "global FAST_MODE" names the FAST_MODE of the module
\* main, the one line 9 bound by "from .text_cleaner import FAST_MODE"; the
\* assignment leaves the FAST_MODE of text_cleaner as it was, and that one
\* is what init_language_tool reads.
MainSetMode ==
    /\ cpc = "main"
    /\ main_FAST_MODE' = ~clean_call.accurate
    /\ UNCHANGED cleaner_FAST_MODE
    /\ tool' = IF ~main_FAST_MODE'
                   THEN InitLanguageTool(cleaner_FAST_MODE, tool)
                   ELSE tool
    /\ tool_inits' = IF tool' # tool
                         THEN Append(tool_inits, Len(cleaned))
                         ELSE tool_inits
    /\ cpc' = "list"
    /\ UNCHANGED <<clean_call, cleaned>>
    /\ UNCHANGED <<poolVars, batchVars, collectVars, saveVars, fnVars>>
    /\ OtherStagesUnchanged("clean")

\* main(), lines 45-71: return when there is no file to process.
MainListFiles ==
    /\ cpc = "list"
    /\ cpc' = IF clean_call.files = << >> THEN "returned" ELSE "pool"
    /\ UNCHANGED <<clean_call, main_FAST_MODE, cleaner_FAST_MODE, tool,
                   tool_inits, cleaned>>
    /\ UNCHANGED <<poolVars, batchVars, collectVars, saveVars, fnVars>>
    /\ OtherStagesUnchanged("clean")

\* process_file in a worker of the Pool (line 77: use_language_tool is
\* "not FAST_MODE" of main): OCR, then clean_text on the globals that the
\* worker's text_cleaner has.
ProcessFile ==
    /\ cpc = "pool"
    /\ Len(cleaned) < Len(clean_call.files)
    /\ LET f     == clean_call.files[Len(cleaned) + 1]
           fast  == IF clean_call.start = "fork"
                        THEN cleaner_FAST_MODE ELSE ImportedFastMode
           tl    == IF clean_call.start = "fork" THEN tool ELSE ImportedTool
       IN  cleaned' =
               Append(cleaned,
                      [i \in 1 .. Len(f.lines) |->
                          CleanerApplies(f.lines[i], ~main_FAST_MODE,
                                         fast, tl)])
    /\ UNCHANGED <<cpc, clean_call, main_FAST_MODE, cleaner_FAST_MODE, tool,
                   tool_inits>>
    /\ UNCHANGED <<poolVars, batchVars, collectVars, saveVars, fnVars>>
    /\ OtherStagesUnchanged("clean")

\* main(), lines 80-95, once pool.map has every result.
MainReturn ==
    /\ cpc = "pool"
    /\ Len(cleaned) = Len(clean_call.files)
    /\ cpc' = "returned"
    /\ UNCHANGED <<clean_call, main_FAST_MODE, cleaner_FAST_MODE, tool,
                   tool_inits, cleaned>>
    /\ UNCHANGED <<poolVars, batchVars, collectVars, saveVars, fnVars>>
    /\ OtherStagesUnchanged("clean")

CleanNext == MainSetMode \/ MainListFiles \/ ProcessFile \/ MainReturn

CleanSpec == CleanInit /\ [][CleanNext]_vars

(***************************************************************************)
(* Worker pool: properties                                                 *)
(***************************************************************************)

CountOutcome(o) == Cardinality({t \in Tasks : outcomeOf[t] = o})

AllAcked == \A t \in Tasks : acks[t] = 1

AllWorkersDone == \A w \in Workers : wpc[w] = "done"

\* C1: for any N tasks and W >= 1 workers, under every interleaving, the
\* success counter and the failure record always equal the number of tasks
\* whose handling ended that way (no concurrent update is lost), and when
\* the run completes success + failed = N.
C1_Completeness ==
    /\ total_screenshots = CountOutcome("ok")
    /\ failed = CountOutcome("raised")
    /\ mainpc = "done" => total_screenshots + failed = ntasks

\* A completed run of 3 tasks in which both workers handled tasks and both
\* a success and a failure were recorded.
C1_Witness ==
    /\ mainpc = "done"
    /\ workers = 2
    /\ ntasks = 3
    /\ total_screenshots >= 1
    /\ failed >= 1
    /\ \E t1, t2 \in Tasks : dequeuedBy[t1] = {1} /\ dequeuedBy[t2] = {2}

\* C2: every task is dequeued by exactly one worker, its capture is
\* attempted exactly once and it is acknowledged exactly once: never twice
\* at any time, and never skipped once q.join() has returned.
C2_ExactlyOnce ==
    /\ \A t \in Tasks :
          /\ dequeues[t] <= 1
          /\ Cardinality(dequeuedBy[t]) = dequeues[t]
          /\ attempts[t] <= dequeues[t]
          /\ acks[t] <= attempts[t]
    /\ mainpc \in {"stop", "tjoin", "done"} =>
          \A t \in Tasks : dequeues[t] = 1 /\ attempts[t] = 1 /\ acks[t] = 1

\* Two workers finish out of queue order: task 2 is acknowledged while
\* task 1, dequeued by the other worker, is still in flight.
C2_Witness ==
    /\ ntasks >= 2
    /\ acks[2] = 1
    /\ acks[1] = 0
    /\ attempts[1] = 0
    /\ dequeuedBy[1] = {1}
    /\ dequeuedBy[2] = {2}

\* C3: sentinels are enqueued only after every real task is acknowledged;
\* exactly W are enqueued; a worker terminates exactly when it has consumed
\* its one sentinel, never while a real task is unprocessed; and main goes
\* past the pool only after all W workers have terminated.
C3_SentinelShutdown ==
    /\ sentinelsPut > 0 => AllAcked
    /\ sentinelsPut <= workers
    /\ mainpc \in {"tjoin", "done"} => sentinelsPut = workers
    /\ \A w \in Workers :
          /\ sentinelsGot[w] <= 1
          /\ wpc[w] = "done" <=> sentinelsGot[w] = 1
          /\ wpc[w] = "done" => AllAcked
    /\ mainpc = "done" => AllWorkersDone /\ queue = << >>

\* A completed run with two workers: two sentinels enqueued, one consumed
\* by each worker.
C3_Witness ==
    /\ mainpc = "done"
    /\ workers = 2
    /\ sentinelsPut = 2
    /\ sentinelsGot[1] = 1
    /\ sentinelsGot[2] = 1

\* C4: a worker leaves the try body only towards task_done, a raised
\* exception being recorded as a failure and not as a success; after
\* task_done the same worker is back at q.get(); and a worker terminates
\* only by dequeuing None.
C4_WorkerStep(w) ==
    /\ (wpc[w] = "capture" /\ wpc'[w] # "capture") =>
          /\ wpc'[w] = "ack"
          /\ outcomeOf'[item[w]] = "raised" =>
                /\ failed' = failed + 1
                /\ total_screenshots' = total_screenshots
    /\ (wpc[w] = "ack" /\ wpc'[w] # "ack") =>
          /\ wpc'[w] = "get"
          /\ acks'[item[w]] = acks[item[w]] + 1
          /\ unfinished' = unfinished - 1
    /\ (wpc[w] # "done" /\ wpc'[w] = "done") =>
          /\ wpc[w] = "get"
          /\ queue # << >>
          /\ Head(queue) = None

C4_FailureIsolated == [][\A w \in Workers : C4_WorkerStep(w)]_vars

\* Worker 1 handled a task that raised, acknowledged it, and now holds the
\* next task.
C4_Witness ==
    \E t \in Tasks :
        /\ outcomeOf[t] = "raised"
        /\ acks[t] = 1
        /\ dequeuedBy[t] = {1}
        /\ wpc[1] = "capture"
        /\ item[1] # t

\* C5: under fair scheduling the run always completes: eventually all tasks
\* are acknowledged, all workers have terminated and main has returned,
\* whichever tasks fail.
C5_RunCompletes == <>[](mainpc = "done" /\ AllAcked /\ AllWorkersDone)

\* A completed run of 3 tasks in which every task failed.
C5_Witness ==
    /\ mainpc = "done"
    /\ ntasks = 3
    /\ failed = 3
    /\ AllAcked
    /\ AllWorkersDone

\* C6: after an interrupt that reaches the main thread while it waits on
\* the pool (q.join() or thread.join()), no further task is acknowledged or
\* counted as a success (in-flight tasks are abandoned), and when nothing
\* can run any more every worker has terminated.
NothingRuns ==
    \A w \in Workers :
        \/ wpc[w] \in {"idle", "done"}
        \/ wpc[w] = "get" /\ queue = << >>

InterruptedWaiting == interruptedAt \in {"qjoin", "tjoin"}

NoFurtherWork ==
    InterruptedWaiting =>
        /\ acks' = acks
        /\ total_screenshots' = total_screenshots

C6_CleanUnwind ==
    /\ [][NoFurtherWork]_vars
    /\ []((InterruptedWaiting /\ NothingRuns) => AllWorkersDone)

(***************************************************************************)
(* Batch orchestrator: properties                                          *)
(***************************************************************************)

Terminal == {"Completed", "Failed"}

\* The edges of Idle -> Submitted -> Active (repeated) -> Completed | Failed;
\* the first poll may already bring the terminal state.
JobEdges ==
    {<<"Idle", "Submitted">>, <<"Submitted", "Active">>,
     <<"Submitted", "Completed">>, <<"Submitted", "Failed">>,
     <<"Active", "Active">>, <<"Active", "Completed">>,
     <<"Active", "Failed">>}

C7_JobStep ==
    /\ status' # status => <<status, status'>> \in JobEdges
    /\ polls' # polls =>
          /\ submitOutcome = "ok"
          /\ status \in {"Submitted", "Active"}
    /\ (status # "Idle" /\ status' # status) => polls' = polls + 1
    /\ status \in Terminal => (status' = status /\ polls' = polls)

\* C7: the job state moves only along Idle -> Submitted -> Active ->
\* Completed | Failed; no status request is made before the submission has
\* returned a job id; after submission the state changes only with a poll;
\* and in Completed or Failed no request is made and the state stays.
C7_JobLifecycle == [][C7_JobStep]_vars

\* A job that was Active for two polls and then completed.
C7_Witness ==
    /\ status = "Completed"
    /\ polls = 3
    /\ bpc = "returned"

\* C8: the deduplicated URL set is submitted in one POST, never repeated;
\* a failed submission ends the batch at once with success 0, failed = the
\* number of URLs submitted, no data and no status poll.
C8_SubmissionFailure ==
    /\ posts <= 1
    /\ bpc \in {"poll", "sleep", "returned"} =>
          /\ posts = 1
          /\ IsDeduplicated(unique_urls)
          /\ Range(unique_urls) = Range(all_urls)
    /\ submitOutcome \notin {"none", "ok"} =>
          /\ bpc = "returned"
          /\ polls = 0
          /\ status = "Idle"
          /\ batch_result.returned
          /\ batch_result.success = 0
          /\ batch_result.failed = Len(unique_urls)
          /\ batch_result.data = << >>

\* A submission of two distinct URLs (one of them extracted twice) answered
\* with a non-2xx status.
C8_Witness ==
    /\ submitOutcome = "http_error"
    /\ bpc = "returned"
    /\ Len(all_urls) = 3
    /\ Len(unique_urls) = 2
    /\ batch_result.failed = 2

\* C9: a job reported "completed" with a missing or empty data list yields
\* failed = the number of URLs submitted and success = 0.
C9_EmptyCompleted ==
    (/\ bpc = "returned"
     /\ lastPoll.kind = "completed"
     /\ lastPoll.data = << >>)
    => /\ batch_result.failed = Len(unique_urls)
       /\ batch_result.success = 0

\* C10: on every return path success + failed = the number of URLs
\* submitted.
C10_AllAccounted ==
    bpc = "returned" =>
        batch_result.success + batch_result.failed = Len(unique_urls)


\* One step of the polling loop: a pending-like response is followed by the
\* sleep, the sleep by the next request and by nothing else, and the
\* function returns from the loop in the very step that handles a response
\* that is not pending-like (or a failed request) and in no other step.
C11_PollStep ==
    /\ (polls' = polls + 1 /\ lastPoll'.kind \in PendingLike) =>
          bpc' = "sleep"
    /\ (polls' = polls + 1 /\ lastPoll'.kind \notin PendingLike) =>
          bpc' = "returned"
    /\ bpc = "sleep" => (bpc' = "poll" /\ polls' = polls)
    /\ polls' # polls =>
          /\ bpc = "poll"
          /\ polls' = polls + 1
          /\ polls > 0 => lastPoll.kind \in PendingLike
    /\ (bpc \in {"poll", "sleep"} /\ bpc' = "returned") =>
          /\ polls' = polls + 1
          /\ lastPoll'.kind \notin PendingLike

\* C11: after a successful submission the loop polls again, after the
\* sleep, as long as each response is pending-like, and is left at the
\* first response with another status or the first failed request, and
\* only then; so the call returns once the backend stops answering
\* pending-like, and does not return before.
C11_PollUntilNotPending ==
    /\ [][C11_PollStep]_vars
    /\ [](bpc \in {"poll", "sleep"} => <>(bpc = "returned"))

\* The backend answered pending-like MaxPolls times and the next request
\* failed: the loop went round MaxPolls times and was then left.
C11_Witness ==
    /\ bpc = "returned"
    /\ polls = MaxPolls + 1
    /\ lastPoll.kind = "error"
    /\ status = "Failed"


(***************************************************************************)
(* Collection of the tasks: properties                                     *)
(***************************************************************************)

\* main() has left the loop over the files and handed the tasks on (or
\* returned for want of any).
Finished == bpc \in {"exit", "submit", "queued"}

\* The tasks handed on, each with the provenance it carries: the URLs given
\* to scrape_urls_batch with their url_metadata_mapping entry, or the items
\* put on the queue with their json_file.
SubmittedTasks ==
    IF stage = "datasource"
        THEN IF bpc = "submit"
                THEN [k \in DOMAIN unique_urls |->
                        [url  |-> unique_urls[k],
                         prov |-> url_metadata_mapping[unique_urls[k]]]]
                ELSE << >>
        ELSE [k \in DOMAIN enqueued |->
                [url  |-> enqueued[k].item.url,
                 prov |-> [categoryName |-> enqueued[k].item.categoryName,
                           question     |-> enqueued[k].item.question,
                           input_file   |-> enqueued[k].json_file]]]

\* The occurrences <<file, position>> of URL u in the readable web files.
Occurrences(u) ==
    {o \in (DOMAIN json_files) \X (1 .. MaxEntries) :
        /\ json_files[o[1]].kind = "web"
        /\ o[2] \in DOMAIN json_files[o[1]].urls
        /\ json_files[o[1]].urls[o[2]] = u}

FirstOccurrence(u) ==
    CHOOSE o \in Occurrences(u) :
        \A p \in Occurrences(u) :
            o[1] < p[1] \/ (o[1] = p[1] /\ o[2] <= p[2])

\* C13: a URL that occurs more than once in the input (in several files or
\* several times in one file) gets exactly one task, and that task carries
\* the source file, category and question of the first occurrence in the
\* sorted traversal order.
C13_FirstOccurrenceWins ==
    Finished =>
        \A u \in Urls :
            Cardinality(Occurrences(u)) >= 2 =>
                \E k \in DOMAIN SubmittedTasks :
                    /\ SubmittedTasks[k].url = u
                    /\ SubmittedTasks[k].prov =
                          [categoryName |-> FirstOccurrence(u)[1],
                           question     |-> FirstOccurrence(u)[2],
                           input_file   |-> FirstOccurrence(u)[1]]
                    /\ \A j \in DOMAIN SubmittedTasks :
                          SubmittedTasks[j].url = u => j = k

\* C16: an unreadable or malformed input file is skipped and contributes no
\* task, and every URL of every other (readable) file, before or after it,
\* is still handed on as a task.
C16_BadFileSkipped ==
    Finished =>
        \A b \in DOMAIN json_files :
            json_files[b].kind = "unreadable" =>
                /\ \A k \in DOMAIN SubmittedTasks :
                      SubmittedTasks[k].prov.input_file # b
                /\ \A f \in DOMAIN json_files :
                      json_files[f].kind = "web" =>
                          \A i \in DOMAIN json_files[f].urls :
                              \E k \in DOMAIN SubmittedTasks :
                                  SubmittedTasks[k].url = json_files[f].urls[i]

\* C20: every document-intent task of the datasource capture gets a direct
\* download attempt first (print-to-PDF only after that failed); none is
\* dropped without an attempt.
C20_DocumentAttempted ==
    (Finished /\ stage = "datasource") =>
        \A f \in DOMAIN json_files :
            json_files[f].kind = "pdf" =>
                \A i \in DOMAIN json_files[f].urls :
                    \E d \in DOMAIN downloads :
                        downloads[d] = json_files[f].urls[i]


(***************************************************************************)
(* Saving and aggregation: properties                                      *)
(***************************************************************************)

\* The results the save loop has handled whose URL matches no submitted
\* task.
UnmatchedHandled ==
    {k \in 1 .. saveIdx :
        /\ batch_result.data[k].sourceURL # NoUrl
        /\ batch_result.data[k].sourceURL \notin Range(unique_urls)}

RECURSIVE SumOfEntries(_, _)
SumOfEntries(groups, i) ==
    IF i > Len(groups)
        THEN 0
        ELSE Len(groups[i].entries) + SumOfEntries(groups, i + 1)

EntriesOf(entries, c) ==
    LET sel == SelectSeq(entries, LAMBDA e : e.categoryName = c)
    IN  [k \in DOMAIN sel |-> Projected(sel[k])]

\* C19: the aggregate is a lossless regrouping: no category has two groups,
\* every group holds exactly the input entries of its category in their
\* input order, every input entry's category has a group, the groups hold
\* as many entries as the input, and an empty input gives an empty array.
C19_LosslessRegrouping ==
    (bpc = "aggregated" /\ final_output.written) =>
        LET G == final_output.groups
            E == collected_metadata
        IN  /\ \A g, h \in DOMAIN G :
                  G[g].categoryName = G[h].categoryName => g = h
            /\ \A g \in DOMAIN G :
                  /\ G[g].entries # << >>
                  /\ G[g].entries = EntriesOf(E, G[g].categoryName)
            /\ \A i \in DOMAIN E :
                  \E g \in DOMAIN G : G[g].categoryName = E[i].categoryName
            /\ SumOfEntries(G, 1) = Len(E)
            /\ E = << >> => G = << >>

\* Three entries of two categories, interleaved: the second group was
\* opened between two entries of the first.
C19_Witness ==
    /\ bpc = "aggregated"
    /\ final_output.written
    /\ Len(collected_metadata) = 3
    /\ collected_metadata[1].categoryName = collected_metadata[3].categoryName
    /\ collected_metadata[1].categoryName # collected_metadata[2].categoryName
    /\ collected_metadata[1].url # collected_metadata[3].url
    /\ Len(final_output.groups) = 2


(***************************************************************************)
(* Domain filter: properties                                               *)
(***************************************************************************)

\* C15: is_denied_domain returns true exactly when the URL can be parsed
\* and its host equals a denylist entry or ends with "." and that entry; a
\* URL that cannot be parsed is not denied.
C15_DeniedIffHostMatches ==
    deny_result.returned =>
        (deny_result.value <=>
            /\ ~urlparse(deny_url).raises
            /\ Matches(hostname(urlparse(deny_url).netloc), denied_domains))


\* C14: no URL whose host matches the denylist is ever put on the worker
\* queue or given to the batch submission.
C14_NoDeniedTask ==
    \A k \in DOMAIN SubmittedTasks :
        ~Matches(hostname(urlparse(UrlText(SubmittedTasks[k].url)).netloc),
                 denied_domains)


(***************************************************************************)
(* Path mapper: properties                                                 *)
(***************************************************************************)

\* The URL as sanitised before the truncation to MaxNameLen characters.
Sanitised(url) ==
    LET f1 == Replace(Replace(url, Https, << >>), Http, << >>)
        f2 == Replace(Replace(Replace(f1, <<"/">>, <<"_">>),
                              <<"?">>, <<"_">>), <<"&">>, <<"_">>)
    IN  Replace(Replace(Replace(f2, <<":">>, <<"_">>),
                        <<"=">>, <<"_">>), <<".">>, <<"_">>)

\* C17: two tasks with different URLs get different output paths whenever
\* neither sanitised name is longer than MaxNameLen characters.
C17_DistinctPaths ==
    (/\ path_a # NoPath
     /\ path_b # NoPath
     /\ task_a.url # task_b.url
     /\ Len(Sanitised(task_a.url)) <= MaxNameLen
     /\ Len(Sanitised(task_b.url)) <= MaxNameLen)
    => path_a # path_b

(***************************************************************************)
(* Question generation: properties                                         *)
(***************************************************************************)

GenDone == gpc \in {"returned", "raised", "escaped"}

AllCaught(n) == \A i \in 1 .. n : gen_outcomes[i] \in CaughtOutcomes

\* C21: generate_questions makes at most `retries` requests; it returns at
\* the first request that gives questions and makes no request after it;
\* it sleeps retry_delay after each failed request that is followed by
\* another one and not after the last; it raises when `retries` requests
\* have all failed; and it always ends.
C21_RetryState ==
    /\ Len(gen_outcomes) <= retries
    /\ \A i \in 1 .. Len(gen_outcomes) - 1 : gen_outcomes[i] \in CaughtOutcomes
    /\ (gpc = "returned")
          <=> (gen_outcomes # << >>
                 /\ gen_outcomes[Len(gen_outcomes)] = "questions")
    /\ \A i \in 1 .. Len(gen_sleeps) :
          gen_sleeps[i] = [requests |-> i, delay |-> retry_delay]
    /\ Len(gen_sleeps) <= Len(gen_outcomes)
    /\ gpc = "try" => Len(gen_sleeps) = Len(gen_outcomes)
    /\ GenDone /\ gen_outcomes # << >>
          => Len(gen_sleeps) = Len(gen_outcomes) - 1
    /\ (gpc = "raised")
          <=> (GenDone /\ Len(gen_outcomes) = retries /\ AllCaught(retries))

C21_BoundedRetry == [](C21_RetryState) /\ <>(GenDone)

C21_Witness ==
    /\ gpc = "raised"
    /\ retries = 3
    /\ Len(gen_outcomes) = 3
    /\ Len(gen_sleeps) = 2

\* C22: evaluations of create_output_path on the same (input file, url,
\* input root, output root) return the same path, whatever the working
\* directory and whatever was evaluated before.
C22_SamePath ==
    \A i, j \in 1 .. Len(map_paths) : map_paths[i] = map_paths[j]

C22_Witness ==
    /\ Len(map_paths) = Evaluations
    /\ map_cwd[1] # map_cwd[2]
    /\ ~map_args.input_dir.abs
    /\ Len(map_paths[1].dir) = 3

(***************************************************************************)
(* Browser sessions: properties                                            *)
(***************************************************************************)

SessionsOf(w) == {i \in 1 .. Len(sessions) : sessions[i].owner = w}

OpenSessions == {i \in 1 .. Len(sessions) : sessions[i].open}

\* The tasks for which worker w reached driver.get.
DriverTasks(w) == UNION {sessions[i].tasks : i \in SessionsOf(w)}

HasMarkdown(it) == it.markdown = "text"

\* The items handled before the first item on which the loop raises.
RECURSIVE Handled(_, _)
Handled(data, i) ==
    IF i > Len(data) \/ data[i].metadata = "null"
        THEN SubSeq(data, 1, i - 1)
        ELSE Handled(data, i + 1)

FatalPolls == OtherStatuses \cup {"error"}

C25_FatalState ==
    lastPoll.kind \in FatalPolls
    => /\ bpc = "returned"
       /\ status = "Failed"
       /\ batch_result.returned
       /\ batch_result.data = successful_results
       /\ batch_result.success = Len(successful_results)
       /\ batch_result.failed = Len(unique_urls) - batch_result.success

C25_FatalStep == lastPoll.kind \in FatalPolls => polls' = polls

\* C25: a failed poll request or an unrecognised status ends the polling
\* in the step that handles it, no further request is made, and the result
\* reports failed = the number of URLs submitted minus the successes.
C25_PollFailureFatal == [](C25_FatalState) /\ [][C25_FatalStep]_vars

C25_Witness ==
    /\ bpc = "returned"
    /\ lastPoll.kind = "failed"
    /\ polls = 2
    /\ Len(unique_urls) = 2
    /\ batch_result.failed = 2

(***************************************************************************)
(* Recorded successes and written files: properties                        *)
(***************************************************************************)

IsComplete(w) == w.complete

CompleteWrites == SelectSeq(written, IsComplete)

\* save_datasource: the metadata entries are, in order, the files written
\* completely; save_screenshot: the tasks counted are those whose file was
\* written completely.
C26_RecordedState ==
    /\ Len(collected_metadata) = Len(CompleteWrites)
    /\ \A i \in 1 .. Len(collected_metadata) :
          /\ collected_metadata[i].contentFilePath = CompleteWrites[i].path
          /\ collected_metadata[i].url = CompleteWrites[i].url
    /\ \A t \in DOMAIN png_files :
          outcomeOf[t] = "ok" <=> png_files[t] = "complete"
    /\ total_screenshots =
          Cardinality({t \in DOMAIN png_files : png_files[t] = "complete"})

\* A success is recorded in the very step that wrote the file completely.
C26_RecordedStep ==
    /\ collected_metadata' # collected_metadata =>
          /\ Len(written') = Len(written) + 1
          /\ written'[Len(written')].complete
          /\ collected_metadata'[Len(collected_metadata')].contentFilePath
                = written'[Len(written')].path
    /\ total_screenshots' # total_screenshots =>
          \E t \in DOMAIN png_files :
             /\ png_files[t] # "complete"
             /\ png_files'[t] = "complete"

\* C26: a task is recorded as success (metadata entry with its output path,
\* or one more counted screenshot) only when its file has been written
\* completely, and a task whose capture or file write raised is not
\* recorded.
C26_SuccessAfterWrite == [](C26_RecordedState) /\ [][C26_RecordedStep]_vars

C26_Witness ==
    /\ mainpc = "done"
    /\ \E t, u \in DOMAIN png_files :
          /\ png_files[t] = "partial"
          /\ png_files[u] = "complete"
    /\ total_screenshots = 1

(***************************************************************************)
(* Document intent: properties                                             *)
(***************************************************************************)

\* The intent the entry asks for: the directive in its dorks, or its tag.
IntendedDocument(in) ==
    \/ in.dorks.key /\ HasPdfDirective(in.dorks)
    \/ in.tag = "true"

\* C27: every task the capture stage receives from the extractor has
\* document intent true when the dorks of its entry hold filetype:pdf or
\* the entry tags the URL as a PDF, and false otherwise.
C27_IntentFromDorks ==
    \A i \in 1 .. Len(received) :
        received[i].is_pdf = IntendedDocument(intent_input)

(***************************************************************************)
(* File names: properties                                                  *)
(***************************************************************************)

ReplacedChars == {"/", "?", "&", ":", "=", "."}

\* The filename is non-empty, at most MaxNameLen long and free of the six
\* replaced characters.
SafeName(name) ==
    /\ Len(name) > 0
    /\ Len(name) <= MaxNameLen
    /\ \A i \in 1 .. Len(name) : name[i] \notin ReplacedChars

\* C28: for every URL the filename is non-empty, at most MaxNameLen
\* characters long, free of the six replaced characters, and equal to the
\* stage's fallback name exactly when the sanitised string is empty.
C28_FallbackExactly ==
    npc = "done" =>
        /\ SafeName(name_result)
        /\ (name_result = DefaultName(name_url.st)
                <=> Sanitised(name_url.url) = << >>)

\* C28, as the code has it: the filename is safe, is the stage's fallback
\* name whenever the sanitised string is empty, and is otherwise the first
\* MaxNameLen characters of the sanitised string.
C28_SafeFilename ==
    npc = "done" =>
        /\ SafeName(name_result)
        /\ (Sanitised(name_url.url) = << >>
                => name_result = DefaultName(name_url.st))
        /\ (Sanitised(name_url.url) # << >>
                => /\ StartsWith(Sanitised(name_url.url), name_result)
                   /\ (Len(Sanitised(name_url.url)) <= MaxNameLen
                          => name_result = Sanitised(name_url.url)))

\* A URL whose sanitised string is longer than the limit was cut to it.
C28_Witness ==
    /\ npc = "done"
    /\ Len(Sanitised(name_url.url)) > MaxNameLen
    /\ Len(name_result) = MaxNameLen

(***************************************************************************)
(* URL retrieval: properties                                               *)
(***************************************************************************)

\* Whether the host of the URL is on the denylist.
OnDeniedHost(url, denied) ==
    /\ ~urlparse(url).raises
    /\ Matches(hostname(urlparse(url).netloc), denied)

NoRepeat(urls) == \A i, j \in 1 .. Len(urls) : i # j => urls[i] # urls[j]

\* The number of attempts is bounded and no attempt starts once WantedUrls
\* URLs are collected.
SearchBounded ==
    /\ search_attempts <= MaxAttempts
    /\ Len(search_results) = search_attempts
    /\ spc = "done" => search_attempts >= 1
    /\ \A i \in 1 .. Len(search_results) :
          search_results[i].before < WantedUrls
    /\ Len(retrieved_urls) <= WantedUrls

\* The question counts as failed exactly when it ended with no URL.
SearchFailedIffEmpty ==
    /\ total_questions_failed = 1 <=> (spc = "done" /\ retrieved_urls = << >>)
    /\ Len(category_results) = 1 <=> (spc = "done" /\ retrieved_urls # << >>)

\* C29: for each question the retrieval makes at least one and at most
\* MaxAttempts searches, makes none once WantedUrls URLs that are not
\* denied are collected, writes at most WantedUrls URLs, none of them
\* twice and none on a denied host, and counts the question as failed
\* exactly when no URL was collected after the last attempt.
C29_BoundedRetrieval ==
    /\ SearchBounded
    /\ SearchFailedIffEmpty
    /\ \A k \in 1 .. Len(category_results) :
          /\ Len(category_results[k]) <= WantedUrls
          /\ NoRepeat(category_results[k])
          /\ \A i \in 1 .. Len(category_results[k]) :
                ~OnDeniedHost(category_results[k][i], search_input.denied)

(***************************************************************************)
(* Processing mode: properties                                             *)
(***************************************************************************)

\* C30: after main is called with accurate = TRUE the FAST_MODE that
\* init_language_tool and clean_text read is false, the language tool is
\* initialised before any file is processed and is applied to each
\* non-empty line; with accurate = FALSE that FAST_MODE is true and the
\* tool is never initialised or applied.
C30_ModeReachesCleaner ==
    cpc \notin {"off", "main"} =>
        IF clean_call.accurate
            THEN /\ ~cleaner_FAST_MODE
                 /\ tool = "LanguageTool"
                 /\ tool_inits = <<0>>
                 /\ \A k \in 1 .. Len(cleaned) :
                       \A i \in 1 .. Len(cleaned[k]) :
                           cleaned[k][i]
                               <=> clean_call.files[k].lines[i] = "text"
            ELSE /\ cleaner_FAST_MODE
                 /\ tool = "None"
                 /\ tool_inits = << >>
                 /\ \A k \in 1 .. Len(cleaned) :
                       \A i \in 1 .. Len(cleaned[k]) : ~cleaned[k][i]

=============================================================================
